---- MODULE Spec2Model ----
(***************************************************************************)
(* The file-based Memento memory store (src/memento_server_files.py):      *)
(* MementoFileManager keeps one JSON container file per user id under the  *)
(* directory memento_memories.  Several server processes (one per stdio    *)
(* client) share that directory.  Text is modelled as sequences of         *)
(* one-character strings, so that sanitising, matching and hashing are     *)
(* computed character by character as the code computes them.              *)
(***************************************************************************)
EXTENDS Integers, Sequences, FiniteSets, TLC

(***************************************************************************)
(* Bounds of the model: the store_memory calls of a run, and the days the   *)
(* clock can advance.                                                      *)
(***************************************************************************)
MaxCalls == 2
MaxTime == 1
\* the longest generated user id
MaxIdLen == 2
\* the records of a container that is searched, and the days since its first
MaxRecs == 2
MaxAge == 2

Procs == {"p1", "p2"}

(***************************************************************************)
(* Text helpers.                                                           *)
(***************************************************************************)
\* Python's None for an optional text argument, and for an optional integer
None == <<"None">>
NoneInt == <<>>

\* truthiness of an optional text: None and the empty string are falsy
Truthy(s) == s /= None /\ s /= <<>>
\* truthiness of an optional integer <<n>>: None and 0 are falsy
TruthyInt(n) == n /= NoneInt /\ n[1] /= 0

\* str.lower() on the characters the model uses
UpperCase == <<"A", "B", "C", "D", "E", "F", "G", "H", "I", "J", "K", "L", "M",
               "N", "O", "P", "Q", "R", "S", "T", "U", "V", "W", "X", "Y", "Z">>
LowerCase == <<"a", "b", "c", "d", "e", "f", "g", "h", "i", "j", "k", "l", "m",
               "n", "o", "p", "q", "r", "s", "t", "u", "v", "w", "x", "y", "z">>

LowerChar(c) ==
    IF \E i \in 1..26 : UpperCase[i] = c
    THEN LowerCase[CHOOSE i \in 1..26 : UpperCase[i] = c]
    ELSE c

lower(s) == [i \in 1..Len(s) |-> LowerChar(s[i])]

\* Python's `sub in s` on strings
contains(sub, s) ==
    \E i \in 0..(Len(s) - Len(sub)) :
        \A j \in 1..Len(sub) : s[i + j] = sub[j]

(***************************************************************************)
(* User ids and container paths.                                           *)
(***************************************************************************)
Bob == <<"b", "o", "b">>
\* two raw ids whose md5 hex digests share their first 8 characters
IdA == <<"<", "$", "(", "*">>
IdB == <<"=", "[", "!", ":">>

Users == {Bob, IdA, IdB}

\* the ids a store_memory call can be given: nothing rules out the empty one
AllUsers == Users \cup {<<>>}

\* the ids whose paths are resolved: the above, the pair a/b and a_b, and
\* every text of up to MaxIdLen characters over a letter, the separator, the
\* dot, the replacement character and a control character
IdChars == {"a", "/", ".", "_", "\t"}
PathIds ==
    AllUsers \cup {<<"a", "/", "b">>, <<"a", "_", "b">>}
             \cup UNION {[1..n -> IdChars] : n \in 0..MaxIdLen}

USER_FILE_EXTENSION == <<".", "j", "s", "o", "n">>

\* the characters the pattern [^\w\-@.] leaves alone (ASCII part of \w)
WordChars ==
    {"a", "b", "c", "d", "e", "f", "g", "h", "i", "j", "k", "l", "m", "n",
     "o", "p", "q", "r", "s", "t", "u", "v", "w", "x", "y", "z",
     "A", "B", "C", "D", "E", "F", "G", "H", "I", "J", "K", "L", "M", "N",
     "O", "P", "Q", "R", "S", "T", "U", "V", "W", "X", "Y", "Z",
     "0", "1", "2", "3", "4", "5", "6", "7", "8", "9", "_"}

SafeChars == WordChars \cup {"-", "@", "."}

\* hashlib.md5(user_id.encode()).hexdigest()[:8], tabulated from the real
\* digests of the ids of the model: the named ones, and every text of up to
\* three characters over IdChars
md5_hexdigest8(user_id) ==
    CASE user_id = Bob -> <<"9", "f", "9", "d", "5", "1", "b", "c">>
      [] user_id = IdA -> <<"d", "9", "e", "b", "1", "2", "a", "9">>
      [] user_id = IdB -> <<"d", "9", "e", "b", "1", "2", "a", "9">>
      [] user_id = <<>> -> <<"d", "4", "1", "d", "8", "c", "d", "9">>
      [] user_id = <<"a", "/", "b">> -> <<"a", "7", "e", "8", "6", "1", "3", "6">>
      [] user_id = <<"a", "_", "b">> -> <<"d", "b", "f", "0", "8", "e", "0", "0">>
      [] user_id = <<"a">> -> <<"0", "c", "c", "1", "7", "5", "b", "9">>
      [] user_id = <<"/">> -> <<"6", "6", "6", "6", "c", "d", "7", "6">>
      [] user_id = <<".">> -> <<"5", "0", "5", "8", "f", "1", "a", "f">>
      [] user_id = <<"_">> -> <<"b", "1", "4", "a", "7", "b", "8", "0">>
      [] user_id = <<"\t">> -> <<"5", "e", "7", "3", "2", "a", "1", "8">>
      [] user_id = <<"a", "a">> -> <<"4", "1", "2", "4", "b", "c", "0", "a">>
      [] user_id = <<"a", "/">> -> <<"a", "8", "a", "6", "e", "d", "2", "d">>
      [] user_id = <<"a", ".">> -> <<"9", "f", "b", "c", "c", "c", "f", "4">>
      [] user_id = <<"a", "_">> -> <<"5", "7", "6", "e", "0", "9", "d", "1">>
      [] user_id = <<"a", "\t">> -> <<"2", "8", "2", "8", "9", "9", "1", "b">>
      [] user_id = <<"/", "a">> -> <<"0", "6", "3", "9", "7", "6", "7", "f">>
      [] user_id = <<"/", "/">> -> <<"7", "b", "c", "0", "e", "e", "6", "3">>
      [] user_id = <<"/", ".">> -> <<"1", "e", "d", "a", "8", "4", "c", "8">>
      [] user_id = <<"/", "_">> -> <<"3", "6", "4", "8", "4", "4", "5", "b">>
      [] user_id = <<"/", "\t">> -> <<"b", "b", "9", "8", "1", "1", "2", "e">>
      [] user_id = <<".", "a">> -> <<"5", "1", "b", "e", "3", "5", "1", "2">>
      [] user_id = <<".", "/">> -> <<"0", "3", "7", "4", "e", "c", "8", "5">>
      [] user_id = <<".", ".">> -> <<"5", "8", "b", "9", "e", "7", "0", "b">>
      [] user_id = <<".", "_">> -> <<"f", "3", "7", "a", "f", "e", "8", "3">>
      [] user_id = <<".", "\t">> -> <<"f", "2", "4", "6", "4", "b", "5", "3">>
      [] user_id = <<"_", "a">> -> <<"5", "c", "8", "5", "5", "e", "0", "9">>
      [] user_id = <<"_", "/">> -> <<"6", "6", "3", "1", "a", "f", "c", "9">>
      [] user_id = <<"_", ".">> -> <<"7", "b", "3", "2", "0", "1", "8", "0">>
      [] user_id = <<"_", "_">> -> <<"1", "8", "f", "0", "5", "a", "e", "d">>
      [] user_id = <<"_", "\t">> -> <<"e", "5", "0", "5", "8", "0", "c", "6">>
      [] user_id = <<"\t", "a">> -> <<"b", "d", "6", "8", "7", "f", "6", "0">>
      [] user_id = <<"\t", "/">> -> <<"9", "4", "9", "5", "7", "b", "f", "8">>
      [] user_id = <<"\t", ".">> -> <<"4", "3", "7", "5", "e", "1", "2", "4">>
      [] user_id = <<"\t", "_">> -> <<"5", "5", "b", "4", "7", "c", "1", "d">>
      [] user_id = <<"\t", "\t">> -> <<"7", "3", "d", "0", "a", "7", "b", "3">>
      [] user_id = <<"a", "a", "a">> -> <<"4", "7", "b", "c", "e", "5", "c", "7">>
      [] user_id = <<"a", "a", "/">> -> <<"b", "a", "0", "0", "9", "c", "f", "a">>
      [] user_id = <<"a", "a", ".">> -> <<"f", "3", "3", "0", "8", "e", "8", "2">>
      [] user_id = <<"a", "a", "_">> -> <<"8", "3", "1", "7", "2", "9", "a", "4">>
      [] user_id = <<"a", "a", "\t">> -> <<"5", "6", "5", "5", "d", "d", "c", "9">>
      [] user_id = <<"a", "/", "a">> -> <<"9", "b", "e", "3", "8", "d", "f", "f">>
      [] user_id = <<"a", "/", "/">> -> <<"7", "0", "0", "4", "9", "e", "5", "9">>
      [] user_id = <<"a", "/", ".">> -> <<"e", "2", "0", "b", "b", "f", "0", "c">>
      [] user_id = <<"a", "/", "_">> -> <<"1", "3", "a", "5", "8", "4", "b", "b">>
      [] user_id = <<"a", "/", "\t">> -> <<"2", "8", "a", "d", "2", "9", "0", "e">>
      [] user_id = <<"a", ".", "a">> -> <<"4", "0", "6", "4", "1", "c", "f", "f">>
      [] user_id = <<"a", ".", "/">> -> <<"1", "f", "2", "b", "1", "d", "3", "5">>
      [] user_id = <<"a", ".", ".">> -> <<"1", "9", "2", "7", "b", "7", "c", "9">>
      [] user_id = <<"a", ".", "_">> -> <<"5", "e", "9", "e", "f", "2", "3", "2">>
      [] user_id = <<"a", ".", "\t">> -> <<"f", "f", "e", "c", "f", "b", "e", "c">>
      [] user_id = <<"a", "_", "a">> -> <<"6", "d", "9", "e", "e", "d", "c", "3">>
      [] user_id = <<"a", "_", "/">> -> <<"1", "7", "c", "7", "3", "0", "b", "4">>
      [] user_id = <<"a", "_", ".">> -> <<"2", "7", "c", "8", "9", "1", "b", "3">>
      [] user_id = <<"a", "_", "_">> -> <<"9", "0", "b", "b", "e", "4", "4", "0">>
      [] user_id = <<"a", "_", "\t">> -> <<"4", "3", "9", "e", "9", "b", "3", "0">>
      [] user_id = <<"a", "\t", "a">> -> <<"c", "1", "e", "9", "1", "3", "e", "a">>
      [] user_id = <<"a", "\t", "/">> -> <<"6", "d", "3", "4", "d", "2", "b", "7">>
      [] user_id = <<"a", "\t", ".">> -> <<"5", "7", "9", "0", "0", "e", "8", "8">>
      [] user_id = <<"a", "\t", "_">> -> <<"c", "5", "e", "6", "6", "1", "d", "4">>
      [] user_id = <<"a", "\t", "\t">> -> <<"8", "5", "7", "2", "2", "c", "a", "f">>
      [] user_id = <<"/", "a", "a">> -> <<"d", "a", "c", "b", "c", "a", "4", "8">>
      [] user_id = <<"/", "a", "/">> -> <<"a", "2", "c", "1", "8", "0", "4", "5">>
      [] user_id = <<"/", "a", ".">> -> <<"c", "a", "9", "6", "9", "b", "6", "0">>
      [] user_id = <<"/", "a", "_">> -> <<"a", "0", "f", "6", "7", "d", "5", "9">>
      [] user_id = <<"/", "a", "\t">> -> <<"c", "5", "e", "0", "b", "f", "1", "4">>
      [] user_id = <<"/", "/", "a">> -> <<"8", "1", "f", "6", "3", "f", "6", "2">>
      [] user_id = <<"/", "/", "/">> -> <<"8", "8", "4", "a", "6", "3", "2", "5">>
      [] user_id = <<"/", "/", ".">> -> <<"4", "e", "a", "d", "5", "7", "5", "8">>
      [] user_id = <<"/", "/", "_">> -> <<"5", "2", "4", "9", "b", "f", "a", "e">>
      [] user_id = <<"/", "/", "\t">> -> <<"7", "f", "a", "8", "6", "5", "7", "e">>
      [] user_id = <<"/", ".", "a">> -> <<"a", "e", "c", "4", "3", "b", "1", "1">>
      [] user_id = <<"/", ".", "/">> -> <<"7", "7", "a", "1", "9", "4", "2", "d">>
      [] user_id = <<"/", ".", ".">> -> <<"8", "6", "5", "4", "7", "3", "f", "8">>
      [] user_id = <<"/", ".", "_">> -> <<"3", "b", "a", "2", "1", "2", "1", "0">>
      [] user_id = <<"/", ".", "\t">> -> <<"a", "1", "7", "a", "a", "8", "7", "a">>
      [] user_id = <<"/", "_", "a">> -> <<"4", "f", "9", "5", "c", "6", "7", "3">>
      [] user_id = <<"/", "_", "/">> -> <<"2", "d", "d", "5", "6", "3", "a", "a">>
      [] user_id = <<"/", "_", ".">> -> <<"9", "c", "d", "7", "2", "6", "8", "3">>
      [] user_id = <<"/", "_", "_">> -> <<"2", "7", "1", "b", "1", "1", "1", "a">>
      [] user_id = <<"/", "_", "\t">> -> <<"8", "d", "4", "0", "3", "e", "2", "1">>
      [] user_id = <<"/", "\t", "a">> -> <<"d", "1", "9", "2", "4", "c", "7", "6">>
      [] user_id = <<"/", "\t", "/">> -> <<"5", "6", "6", "4", "5", "3", "c", "f">>
      [] user_id = <<"/", "\t", ".">> -> <<"e", "1", "7", "a", "a", "d", "2", "8">>
      [] user_id = <<"/", "\t", "_">> -> <<"1", "8", "1", "0", "f", "9", "d", "e">>
      [] user_id = <<"/", "\t", "\t">> -> <<"f", "7", "8", "f", "e", "6", "8", "7">>
      [] user_id = <<".", "a", "a">> -> <<"8", "d", "8", "f", "d", "0", "d", "b">>
      [] user_id = <<".", "a", "/">> -> <<"5", "a", "2", "5", "b", "0", "2", "a">>
      [] user_id = <<".", "a", ".">> -> <<"9", "f", "7", "5", "8", "d", "6", "c">>
      [] user_id = <<".", "a", "_">> -> <<"5", "5", "6", "8", "b", "0", "2", "6">>
      [] user_id = <<".", "a", "\t">> -> <<"b", "8", "3", "1", "3", "1", "0", "d">>
      [] user_id = <<".", "/", "a">> -> <<"2", "e", "a", "3", "a", "9", "e", "5">>
      [] user_id = <<".", "/", "/">> -> <<"6", "5", "a", "f", "a", "2", "6", "0">>
      [] user_id = <<".", "/", ".">> -> <<"d", "7", "5", "2", "e", "b", "e", "d">>
      [] user_id = <<".", "/", "_">> -> <<"0", "b", "6", "3", "a", "6", "a", "a">>
      [] user_id = <<".", "/", "\t">> -> <<"6", "e", "b", "4", "d", "c", "5", "3">>
      [] user_id = <<".", ".", "a">> -> <<"9", "c", "e", "8", "8", "3", "7", "f">>
      [] user_id = <<".", ".", "/">> -> <<"3", "6", "7", "3", "6", "c", "9", "9">>
      [] user_id = <<".", ".", ".">> -> <<"2", "f", "4", "3", "b", "4", "2", "f">>
      [] user_id = <<".", ".", "_">> -> <<"b", "a", "4", "c", "1", "b", "2", "0">>
      [] user_id = <<".", ".", "\t">> -> <<"8", "b", "7", "e", "5", "0", "a", "b">>
      [] user_id = <<".", "_", "a">> -> <<"5", "1", "a", "4", "c", "d", "3", "2">>
      [] user_id = <<".", "_", "/">> -> <<"2", "5", "1", "c", "d", "b", "b", "9">>
      [] user_id = <<".", "_", ".">> -> <<"e", "6", "9", "3", "8", "9", "5", "f">>
      [] user_id = <<".", "_", "_">> -> <<"7", "f", "1", "f", "b", "3", "1", "0">>
      [] user_id = <<".", "_", "\t">> -> <<"1", "9", "2", "6", "2", "1", "9", "c">>
      [] user_id = <<".", "\t", "a">> -> <<"b", "9", "e", "9", "a", "a", "5", "a">>
      [] user_id = <<".", "\t", "/">> -> <<"a", "5", "b", "5", "2", "3", "1", "a">>
      [] user_id = <<".", "\t", ".">> -> <<"8", "9", "a", "5", "7", "d", "0", "2">>
      [] user_id = <<".", "\t", "_">> -> <<"4", "d", "1", "0", "4", "0", "d", "0">>
      [] user_id = <<".", "\t", "\t">> -> <<"6", "f", "9", "c", "3", "5", "9", "b">>
      [] user_id = <<"_", "a", "a">> -> <<"9", "0", "d", "4", "9", "0", "2", "d">>
      [] user_id = <<"_", "a", "/">> -> <<"0", "6", "e", "a", "8", "a", "4", "6">>
      [] user_id = <<"_", "a", ".">> -> <<"e", "b", "2", "d", "3", "0", "a", "3">>
      [] user_id = <<"_", "a", "_">> -> <<"7", "6", "7", "8", "5", "1", "0", "b">>
      [] user_id = <<"_", "a", "\t">> -> <<"5", "a", "c", "5", "f", "8", "9", "8">>
      [] user_id = <<"_", "/", "a">> -> <<"f", "0", "5", "a", "1", "a", "7", "5">>
      [] user_id = <<"_", "/", "/">> -> <<"d", "7", "5", "8", "5", "e", "e", "e">>
      [] user_id = <<"_", "/", ".">> -> <<"f", "0", "d", "0", "7", "d", "3", "2">>
      [] user_id = <<"_", "/", "_">> -> <<"e", "e", "7", "6", "b", "d", "e", "9">>
      [] user_id = <<"_", "/", "\t">> -> <<"8", "0", "6", "7", "6", "1", "f", "8">>
      [] user_id = <<"_", ".", "a">> -> <<"f", "a", "c", "3", "f", "2", "4", "e">>
      [] user_id = <<"_", ".", "/">> -> <<"f", "1", "0", "9", "b", "a", "6", "a">>
      [] user_id = <<"_", ".", ".">> -> <<"e", "a", "4", "e", "a", "0", "2", "e">>
      [] user_id = <<"_", ".", "_">> -> <<"7", "f", "7", "e", "f", "a", "9", "d">>
      [] user_id = <<"_", ".", "\t">> -> <<"a", "b", "a", "e", "d", "4", "1", "4">>
      [] user_id = <<"_", "_", "a">> -> <<"e", "1", "3", "a", "9", "6", "a", "0">>
      [] user_id = <<"_", "_", "/">> -> <<"2", "8", "0", "c", "5", "e", "1", "7">>
      [] user_id = <<"_", "_", ".">> -> <<"2", "7", "0", "8", "d", "b", "8", "5">>
      [] user_id = <<"_", "_", "_">> -> <<"9", "4", "8", "a", "1", "3", "f", "1">>
      [] user_id = <<"_", "_", "\t">> -> <<"e", "3", "5", "a", "f", "3", "9", "d">>
      [] user_id = <<"_", "\t", "a">> -> <<"2", "0", "2", "9", "f", "7", "1", "1">>
      [] user_id = <<"_", "\t", "/">> -> <<"5", "1", "3", "b", "3", "9", "5", "9">>
      [] user_id = <<"_", "\t", ".">> -> <<"4", "0", "5", "2", "4", "4", "4", "1">>
      [] user_id = <<"_", "\t", "_">> -> <<"a", "a", "8", "6", "a", "4", "b", "b">>
      [] user_id = <<"_", "\t", "\t">> -> <<"5", "3", "9", "8", "1", "3", "8", "9">>
      [] user_id = <<"\t", "a", "a">> -> <<"3", "d", "5", "b", "5", "9", "a", "5">>
      [] user_id = <<"\t", "a", "/">> -> <<"3", "b", "b", "d", "5", "4", "9", "6">>
      [] user_id = <<"\t", "a", ".">> -> <<"1", "5", "7", "a", "5", "3", "2", "2">>
      [] user_id = <<"\t", "a", "_">> -> <<"6", "b", "9", "b", "7", "f", "1", "4">>
      [] user_id = <<"\t", "a", "\t">> -> <<"3", "0", "0", "2", "4", "2", "0", "3">>
      [] user_id = <<"\t", "/", "a">> -> <<"f", "c", "8", "d", "9", "a", "a", "f">>
      [] user_id = <<"\t", "/", "/">> -> <<"e", "f", "1", "1", "2", "9", "e", "c">>
      [] user_id = <<"\t", "/", ".">> -> <<"d", "6", "f", "3", "1", "4", "4", "d">>
      [] user_id = <<"\t", "/", "_">> -> <<"b", "8", "0", "b", "b", "2", "9", "2">>
      [] user_id = <<"\t", "/", "\t">> -> <<"6", "c", "1", "6", "9", "8", "3", "6">>
      [] user_id = <<"\t", ".", "a">> -> <<"5", "3", "a", "0", "a", "9", "1", "0">>
      [] user_id = <<"\t", ".", "/">> -> <<"b", "5", "c", "f", "2", "6", "e", "8">>
      [] user_id = <<"\t", ".", ".">> -> <<"6", "e", "1", "5", "a", "f", "4", "1">>
      [] user_id = <<"\t", ".", "_">> -> <<"b", "1", "b", "2", "a", "b", "2", "6">>
      [] user_id = <<"\t", ".", "\t">> -> <<"2", "6", "b", "3", "8", "d", "7", "d">>
      [] user_id = <<"\t", "_", "a">> -> <<"5", "5", "7", "d", "e", "1", "3", "8">>
      [] user_id = <<"\t", "_", "/">> -> <<"f", "5", "f", "f", "6", "7", "4", "c">>
      [] user_id = <<"\t", "_", ".">> -> <<"e", "7", "0", "8", "9", "1", "4", "4">>
      [] user_id = <<"\t", "_", "_">> -> <<"5", "b", "a", "a", "b", "a", "e", "1">>
      [] user_id = <<"\t", "_", "\t">> -> <<"f", "4", "a", "7", "9", "4", "c", "1">>
      [] user_id = <<"\t", "\t", "a">> -> <<"2", "3", "b", "5", "d", "4", "9", "0">>
      [] user_id = <<"\t", "\t", "/">> -> <<"8", "7", "3", "4", "d", "b", "b", "a">>
      [] user_id = <<"\t", "\t", ".">> -> <<"4", "a", "f", "1", "f", "b", "a", "c">>
      [] user_id = <<"\t", "\t", "_">> -> <<"4", "5", "6", "9", "b", "8", "f", "7">>
      [] user_id = <<"\t", "\t", "\t">> -> <<"5", "2", "b", "6", "8", "3", "4", "7">>

\* the raw id kept as it is, nothing replaced
sanitize_user_id_raw(user_id) == user_id \o <<"_">> \o md5_hexdigest8(user_id)

\* re.sub(r'[^\w\-@.]', '_', user_id) followed by "_" and the hash prefix
sanitize_user_id(user_id) ==
    [i \in 1..Len(user_id) |->
        IF user_id[i] \in SafeChars THEN user_id[i] ELSE "_"]
    \o <<"_">> \o md5_hexdigest8(user_id)

\* the name of the user's file inside memories_dir
get_user_file_path(user_id) == sanitize_user_id(user_id) \o USER_FILE_EXTENSION

Paths == {get_user_file_path(u) : u \in AllUsers}

\* Path("memento_memories"), as the sequence of its parts
MEMORIES_DIR == << <<"m", "e", "m", "e", "n", "t", "o", "_",
                     "m", "e", "m", "o", "r", "i", "e", "s">> >>

RECURSIVE path_parts(_, _)
\* pathlib's parsing of a path text: split at "/", empty and "." parts
\* dropped, ".." kept; cur is the part being read
path_parts(s, cur) ==
    LET done == IF cur \in {<<>>, <<".">>} THEN <<>> ELSE <<cur>>
    IN  IF s = <<>> THEN done
        ELSE IF Head(s) = "/" THEN done \o path_parts(Tail(s), <<>>)
        ELSE path_parts(Tail(s), Append(cur, Head(s)))

\* pathlib's `dir / text`: an absolute text replaces dir
path_join(dir, s) ==
    IF s /= <<>> /\ Head(s) = "/" THEN << <<"/">> >> \o path_parts(s, <<>>)
    ELSE dir \o path_parts(s, <<>>)

\* lines 65-69: self.memories_dir / f"{safe_user_id}{USER_FILE_EXTENSION}"
user_file_path(user_id) == path_join(MEMORIES_DIR, get_user_file_path(user_id))

\* Path.parent and Path.name
path_parent(path) == SubSeq(path, 1, Len(path) - 1)
path_name(path) == path[Len(path)]

RECURSIVE path_str(_)
\* str(path): the parts joined by "/"
path_str(path) ==
    IF Len(path) = 0 THEN <<".">>
    ELSE IF Len(path) = 1 THEN path[1]
    ELSE IF path[1] = <<"/">> THEN <<"/">> \o path_str(Tail(path))
    ELSE path[1] \o <<"/">> \o path_str(Tail(path))

\* str.endswith
endswith(s, suffix) ==
    /\ Len(s) >= Len(suffix)
    /\ SubSeq(s, Len(s) - Len(suffix) + 1, Len(s)) = suffix

(***************************************************************************)
(* Arguments of the calls.                                                 *)
(***************************************************************************)
General == <<"g", "e", "n", "e", "r", "a", "l">>
Work == <<"w">>

\* (content, category, tags, importance) of the store calls of the model
StoreArgs ==
    { [content |-> <<"A", "b">>, category |-> None, tags |-> <<>>,
       importance |-> 5],
      [content |-> <<"c">>, category |-> Work, tags |-> << <<"B">> >>,
       importance |-> 8] }

\* the arguments a search of a given container is called with; the limit is
\* the one the recall_memories tool was given, or none
Queries == {None, <<>>, <<"A">>, <<"w">>}
Categories == {None, <<>>, Work, General}
DaysBack == {NoneInt} \cup {<<d>> : d \in 0..MaxAge}
Limits == {NoneInt} \cup {<<l>> : l \in -1..MaxRecs}

\* (query, category, days_back, limit) of the search calls of the model
SearchArgs ==
    { [query |-> None, category |-> None, days_back |-> NoneInt, limit |-> 50],
      [query |-> <<"b">>, category |-> None, days_back |-> <<1>>, limit |-> 1],
      [query |-> None, category |-> Work, days_back |-> NoneInt, limit |-> 50] }

(***************************************************************************)
(* Files.  A file is an inode number, whether its text is the JSON object   *)
(* save_user_memories writes, the document it holds when it is, and what   *)
(* is wrong with it when it is not: "truncated" (json.load raises          *)
(* JSONDecodeError), "encoding" (bytes that are not UTF-8: reading raises  *)
(* UnicodeDecodeError) or "array" (the JSON document [], not an object).   *)
(***************************************************************************)
NoData == [user_id |-> <<>>, last_updated |-> 0, total_memories |-> 0,
           memories |-> <<>>]
NoFile == [ino |-> 0, ok |-> FALSE, fault |-> "none", data |-> NoData]
\* a file whose JSON text is incomplete
PartialFile(ino) ==
    [ino |-> ino, ok |-> FALSE, fault |-> "truncated", data |-> NoData]
JsonFile(ino, d) == [ino |-> ino, ok |-> TRUE, fault |-> "none", data |-> d]
\* a file that is not a JSON object at all
GarbledFile(ino, fault) ==
    [ino |-> ino, ok |-> FALSE, fault |-> fault, data |-> NoData]
Faults == {"encoding", "array"}

VARIABLES
    container,   \* path -> the file at that path of memories_dir, or NoFile
    temps,       \* the temporary files present in memories_dir
    nextIno,     \* next inode number
    now,         \* datetime.now(), in days
    calls,       \* number of store_memory calls started
    pc,          \* per process: "idle", or where it is inside store_memory:
                 \* "save" (loaded), "dump" (temp file open), "move" (closed)
    arg,         \* per process: the arguments of its store_memory call
    memories,    \* per process: the local list `memories`
    memory_id,   \* per process: the local `memory_id`
    data,        \* per process: the local `data` of save_user_memories
    tmp,         \* per process: inode of its NamedTemporaryFile
    pre,         \* per process: the container file its call loaded from
    outcome,     \* how the store_memory call that ended last ended
    hist,        \* the successful stores, in order: [user_id, record]
    result,      \* what the step just taken returned, if it was a read
    db,          \* memento_server.py: the rows of the table `memories`
    storage      \* mcpmemento: the files under memento_storage

vars == <<container, temps, nextIno, now, calls, pc, arg, memories, memory_id,
          data, tmp, pre, outcome, hist, result, db, storage>>

\* mcpmemento: memento_storage with no user directory and no file
EmptyStorage == [dirs |-> {}, files |-> {}]

NoArg == [user_id |-> <<>>, content |-> <<>>, category |-> None,
          tags |-> <<>>, importance |-> 0]
NoOutcome == [kind |-> "none", user_id |-> <<>>, id |-> 0, saved |-> FALSE,
              pre |-> NoFile]
NoSearchArg == [query |-> None, category |-> None, days_back |-> NoneInt,
                limit |-> 0]
\* op: the function called; raised: it raised instead of returning; args: the
\* filters of a search; memories: the list a search returned; value: what
\* another function returned
NoResult == [op |-> "none", user_id |-> <<>>, called |-> FALSE,
             raised |-> FALSE, args |-> NoSearchArg, memories |-> <<>>,
             value |-> <<>>]

Init ==
    /\ container = [p \in Paths |-> NoFile]
    /\ temps = {}
    /\ nextIno = 1
    /\ now = 0
    /\ calls = 0
    /\ pc = [p \in Procs |-> "idle"]
    /\ arg = [p \in Procs |-> NoArg]
    /\ memories = [p \in Procs |-> <<>>]
    /\ memory_id = [p \in Procs |-> 0]
    /\ data = [p \in Procs |-> NoData]
    /\ tmp = [p \in Procs |-> 0]
    /\ pre = [p \in Procs |-> NoFile]
    /\ outcome = NoOutcome
    /\ hist = <<>>
    /\ result = NoResult
    /\ db = <<>>
    /\ storage = EmptyStorage

(***************************************************************************)
(* flock.  The only lock held from one step to the next is the exclusive   *)
(* lock save_user_memories takes on its own temporary file, from creating  *)
(* it until the `with` block closes it; load_user_memories takes a shared  *)
(* lock on the file it has opened, which waits for an exclusive holder of  *)
(* that same inode.                                                        *)
(***************************************************************************)
LockedEX(ino) == \E q \in Procs : pc[q] = "dump" /\ tmp[q] = ino

\* the shared lock as it would be were the user's file locked exclusively for
\* the whole of store_memory
CanLockSH_per_user(path) ==
    ~\E q \in Procs :
        pc[q] /= "idle" /\ get_user_file_path(arg[q].user_id) = path

\* fcntl.flock(f.fileno(), LOCK_SH) on the file at `path` is granted
CanLockSH(path) == container[path].ino = 0 \/ ~LockedEX(container[path].ino)

(***************************************************************************)
(* MementoFileManager: the pure part.                                      *)
(***************************************************************************)
\* lines 86-95: the except clause names json.JSONDecodeError and IOError only,
\* so UnicodeDecodeError (read) and AttributeError (data.get on a list)
\* leave load_user_memories as exceptions
load_raises(user_id) ==
    container[get_user_file_path(user_id)].fault \in Faults

\* load_user_memories: [] when the file is missing or does not parse
load_user_memories(user_id) ==
    LET f == container[get_user_file_path(user_id)]
    IN  IF f.ino = 0 THEN <<>>
        ELSE IF ~f.ok THEN <<>>
        ELSE f.data.memories

RECURSIVE max_id(_)
\* max([m.get('id', 0) for m in memories], default=0)
max_id(mems) ==
    IF mems = <<>> THEN 0
    ELSE LET rest == max_id(Tail(mems))
         IN  IF Head(mems).id > rest THEN Head(mems).id ELSE rest

\* the id without the increment
new_memory_id_no_increment(mems) == max_id(mems)

\* memory_id = max(...) + 1
new_memory_id(mems) == max_id(mems) + 1

\* the dict new_memory of store_memory
new_memory(id, a, t) ==
    [id |-> id,
     content |-> a.content,
     category |-> IF Truthy(a.category) THEN a.category ELSE General,
     tags |-> a.tags,
     importance |-> a.importance,
     created_at |-> t,
     updated_at |-> t]

\* the new record alone, the loaded ones dropped
memories_append_forgets(mems, m) == <<m>>

\* memories.append(new_memory)
memories_append(mems, m) == Append(mems, m)

\* `data` with the count taken before the append
save_data_stale_total(user_id, mems, t) ==
    [user_id |-> user_id,
     last_updated |-> t,
     total_memories |-> Len(mems) - 1,
     memories |-> mems]

\* the dict `data` of save_user_memories
save_data(user_id, mems, t) ==
    [user_id |-> user_id,
     last_updated |-> t,
     total_memories |-> Len(mems),
     memories |-> mems]

\* one memory passes the filters of search_memories
passes_filters(m, query, category, days_back, t) ==
    /\ ~(Truthy(category) /\ m.category /= category)
    /\ ~(TruthyInt(days_back) /\ m.created_at < t - days_back[1])
    /\ ~( /\ Truthy(query)
          /\ ~( \/ contains(lower(query), lower(m.content))
                \/ contains(lower(query), lower(m.category))
                \/ \E i \in 1..Len(m.tags) :
                       contains(lower(query), lower(m.tags[i])) ) )

\* the sort key without the importance
key_ge_time_only(a, b) == a.created_at >= b.created_at

\* the sort key (created_at, importance) of a is >= that of b
key_ge(a, b) ==
    \/ a.created_at > b.created_at
    \/ a.created_at = b.created_at /\ a.importance >= b.importance

\* m placed behind every element whose key is >= its own (stable, descending)
insert_desc(sorted, m) ==
    LET k == Cardinality({i \in 1..Len(sorted) : key_ge(sorted[i], m)})
    IN  SubSeq(sorted, 1, k) \o <<m>> \o SubSeq(sorted, k + 1, Len(sorted))

RECURSIVE sort_desc(_)
\* list.sort(key=..., reverse=True)
sort_desc(s) ==
    IF s = <<>> THEN <<>>
    ELSE insert_desc(sort_desc(SubSeq(s, 1, Len(s) - 1)), s[Len(s)])

\* Python's s[:limit]
slice_to(s, limit) ==
    IF limit >= 0
    THEN SubSeq(s, 1, IF limit < Len(s) THEN limit ELSE Len(s))
    ELSE SubSeq(s, 1, IF Len(s) + limit > 0 THEN Len(s) + limit ELSE 0)

\* the limit applied to the loaded list, before filtering and sorting
search_memories_limit_first(user_id, query, category, days_back, limit) ==
    LET mems == slice_to(load_user_memories(user_id), limit)
        filtered == SelectSeq(mems,
                        LAMBDA m : passes_filters(m, query, category,
                                                  days_back, now))
    IN  sort_desc(filtered)

\* line 549: limit = arguments.get("limit", 10)
RECALL_DEFAULT_LIMIT == 10
recall_limit(given) == IF given = NoneInt THEN RECALL_DEFAULT_LIMIT ELSE given[1]

\* lines 166-209
search_memories(user_id, query, category, days_back, limit) ==
    LET mems == load_user_memories(user_id)
        filtered == SelectSeq(mems,
                        LAMBDA m : passes_filters(m, query, category,
                                                  days_back, now))
    IN  slice_to(sort_desc(filtered), limit)

\* the summary of a user without records (lines 215-222)
empty_summary(user_id) ==
    [total_memories |-> 0, categories |-> <<>>, recent_memories |-> 0,
     user_id |-> user_id, file_path |-> path_str(user_file_path(user_id))]

\* lines 211-244; categories is the dict category -> count, as a function
get_memory_summary(user_id) ==
    LET mems == load_user_memories(user_id)
        at == 1..Len(mems)
    IN  IF mems = <<>> THEN empty_summary(user_id)
        ELSE [total_memories |-> Len(mems),
              categories |->
                  [c \in {mems[i].category : i \in at} |->
                      Cardinality({i \in at : mems[i].category = c})],
              recent_memories |->
                  Cardinality({i \in at : mems[i].created_at >= now - 7}),
              user_id |-> user_id,
              file_path |-> path_str(user_file_path(user_id))]

\* the files self.memories_dir.glob("*.json") yields: the containers (the
\* names NamedTemporaryFile makes carry no suffix)
globbed == {path \in Paths : container[path].ino /= 0}

\* lines 250-256: of what reading a globbed file can raise, only
\* JSONDecodeError and IOError are skipped; `'user_id' in data` is False for
\* the document [] and reading bytes that are not UTF-8 raises
list_raises == \E path \in globbed : container[path].fault = "encoding"

\* list_all_users when the glob yields the files in the given order
list_all_users(order) ==
    LET read == SelectSeq(order, LAMBDA path : container[path].ok)
    IN  [i \in 1..Len(read) |-> container[read[i]].data.user_id]

(***************************************************************************)
(* store_memory, step by step.                                             *)
(***************************************************************************)
\* the result of save_user_memories ignored
store_outcome_unchecked(saved, id) == [kind |-> "returned", id |-> id]

\* lines 160-164: the id when save_user_memories returned True, else raise
store_outcome(saved, id) ==
    IF saved THEN [kind |-> "returned", id |-> id]
    ELSE [kind |-> "raised", id |-> 0]

\* process p leaves store_memory: its locals are gone
leave(p) ==
    /\ pc' = [pc EXCEPT ![p] = "idle"]
    /\ arg' = [arg EXCEPT ![p] = NoArg]
    /\ memories' = [memories EXCEPT ![p] = <<>>]
    /\ memory_id' = [memory_id EXCEPT ![p] = 0]
    /\ data' = [data EXCEPT ![p] = NoData]
    /\ tmp' = [tmp EXCEPT ![p] = 0]
    /\ pre' = [pre EXCEPT ![p] = NoFile]

\* the call of process p ends after save_user_memories returned `saved`
store_return(p, saved) ==
    LET o == store_outcome(saved, memory_id[p])
    IN  /\ outcome' = [kind |-> o.kind, user_id |-> arg[p].user_id,
                       id |-> o.id, saved |-> saved, pre |-> pre[p]]
        /\ hist' = IF o.kind = "returned"
                   THEN Append(hist, [user_id |-> arg[p].user_id,
                                      record |-> memories[p][Len(memories[p])]])
                   ELSE hist
        /\ leave(p)

\* lines 138-157: load, pick the id, build the record, append it
store_memory_begin(p, u, a) ==
    /\ pc[p] = "idle"
    /\ calls < MaxCalls
    /\ CanLockSH(get_user_file_path(u))
    /\ ~load_raises(u)
    /\ LET mems == load_user_memories(u)
           id == new_memory_id(mems)
       IN  /\ memory_id' = [memory_id EXCEPT ![p] = id]
           /\ memories' = [memories EXCEPT ![p] =
                              memories_append(mems, new_memory(id, a, now))]
    /\ arg' = [arg EXCEPT ![p] = [user_id |-> u, content |-> a.content,
                                  category |-> a.category, tags |-> a.tags,
                                  importance |-> a.importance]]
    /\ pre' = [pre EXCEPT ![p] = container[get_user_file_path(u)]]
    /\ calls' = calls + 1
    /\ pc' = [pc EXCEPT ![p] = "save"]
    /\ result' = NoResult
    /\ UNCHANGED <<db, storage, container, temps, nextIno, now, data, tmp, outcome, hist>>

\* line 138: load_user_memories raises, and so does store_memory
store_memory_load_raises(p, u, a) ==
    /\ pc[p] = "idle"
    /\ calls < MaxCalls
    /\ CanLockSH(get_user_file_path(u))
    /\ load_raises(u)
    /\ outcome' = [kind |-> "raised", user_id |-> u, id |-> 0, saved |-> FALSE,
                   pre |-> container[get_user_file_path(u)]]
    /\ calls' = calls + 1
    /\ result' = NoResult
    /\ UNCHANGED <<db, storage, container, temps, nextIno, now, pc, arg, memories,
                   memory_id, data, tmp, pre, hist>>

\* the container path itself opened for writing, no temporary file
save_open_temp_in_place(p) ==
    /\ pc[p] = "save"
    /\ data' = [data EXCEPT ![p] = save_data(arg[p].user_id, memories[p], now)]
    /\ container' = [container EXCEPT ![get_user_file_path(arg[p].user_id)] =
                        PartialFile(nextIno)]
    /\ temps' = temps \cup {PartialFile(nextIno)}
    /\ tmp' = [tmp EXCEPT ![p] = nextIno]
    /\ nextIno' = nextIno + 1
    /\ pc' = [pc EXCEPT ![p] = "dump"]
    /\ result' = NoResult
    /\ UNCHANGED <<db, storage, now, calls, arg, memories, memory_id, pre, outcome, hist>>

\* lines 99-119: build `data`, create the temporary file, lock it
save_open_temp(p) ==
    /\ pc[p] = "save"
    /\ data' = [data EXCEPT ![p] = save_data(arg[p].user_id, memories[p], now)]
    /\ temps' = temps \cup {PartialFile(nextIno)}
    /\ tmp' = [tmp EXCEPT ![p] = nextIno]
    /\ nextIno' = nextIno + 1
    /\ pc' = [pc EXCEPT ![p] = "dump"]
    /\ result' = NoResult
    /\ UNCHANGED <<db, storage, container, now, calls, arg, memories, memory_id, pre,
                   outcome, hist>>

\* NamedTemporaryFile raises OSError: no file, save returns False
save_open_temp_fail(p) ==
    /\ pc[p] = "save"
    /\ store_return(p, FALSE)
    /\ result' = NoResult
    /\ UNCHANGED <<db, storage, container, temps, nextIno, now, calls>>

\* lines 120-121: json.dump completes, the file is closed, its name is kept
save_dump(p) ==
    /\ pc[p] = "dump"
    /\ temps' = (temps \ {PartialFile(tmp[p])}) \cup {JsonFile(tmp[p], data[p])}
    /\ pc' = [pc EXCEPT ![p] = "move"]
    /\ result' = NoResult
    /\ UNCHANGED <<db, storage, container, nextIno, now, calls, arg, memories, memory_id,
                   data, tmp, pre, outcome, hist>>

\* json.dump raises IOError: temp_file_path was never assigned, so the
\* handler at lines 128-133 does not unlink the half-written file
save_dump_fail(p) ==
    /\ pc[p] = "dump"
    /\ store_return(p, FALSE)
    /\ result' = NoResult
    /\ UNCHANGED <<db, storage, container, temps, nextIno, now, calls>>

\* line 124: shutil.move renames the temporary file onto the container path
save_move(p) ==
    /\ pc[p] = "move"
    /\ container' = [container EXCEPT ![get_user_file_path(arg[p].user_id)] =
                        JsonFile(tmp[p], data[p])]
    /\ temps' = temps \ {JsonFile(tmp[p], data[p])}
    /\ store_return(p, TRUE)
    /\ result' = NoResult
    /\ UNCHANGED <<db, storage, nextIno, now, calls>>

\* shutil.move raises OSError, the container untouched: the handler unlinks
\* the temporary file
save_move_fail(p) ==
    /\ pc[p] = "move"
    /\ temps' = temps \ {JsonFile(tmp[p], data[p])}
    /\ store_return(p, FALSE)
    /\ result' = NoResult
    /\ UNCHANGED <<db, storage, container, nextIno, now, calls>>

\* the process is killed inside store_memory: nothing is cleaned up
interrupt(p) ==
    /\ pc[p] /= "idle"
    /\ outcome' = [kind |-> "interrupted", user_id |-> arg[p].user_id,
                   id |-> 0, saved |-> FALSE, pre |-> pre[p]]
    /\ leave(p)
    /\ result' = NoResult
    /\ UNCHANGED <<db, storage, container, temps, nextIno, now, calls, hist>>

(***************************************************************************)
(* The other steps.                                                        *)
(***************************************************************************)
\* lines 166-209, for one call of search_memories
search(u, query, category, days_back, limit) ==
    /\ CanLockSH(get_user_file_path(u))
    /\ result' = [op |-> "search_memories", user_id |-> u, called |-> TRUE,
                  raised |-> load_raises(u),
                  args |-> [query |-> query, category |-> category,
                            days_back |-> days_back, limit |-> limit],
                  memories |-> IF load_raises(u) THEN <<>>
                               ELSE search_memories(u, query, category,
                                                    days_back, limit),
                  value |-> <<>>]
    /\ UNCHANGED <<db, storage, container, temps, nextIno, now, calls, pc, arg, memories,
                   memory_id, data, tmp, pre, outcome, hist>>

\* lines 211-244, for one call of get_memory_summary
summary(u) ==
    /\ CanLockSH(get_user_file_path(u))
    /\ result' = [op |-> "get_memory_summary", user_id |-> u, called |-> TRUE,
                  raised |-> load_raises(u), args |-> NoSearchArg,
                  memories |-> <<>>,
                  value |-> IF load_raises(u) THEN <<>>
                            ELSE get_memory_summary(u)]
    /\ UNCHANGED <<db, storage, container, temps, nextIno, now, calls, pc, arg, memories,
                   memory_id, data, tmp, pre, outcome, hist>>

\* lines 246-257, for one call of list_all_users; the order in which glob
\* yields the files is the directory's
list_users ==
    \E order \in [1..Cardinality(globbed) -> globbed] :
        /\ \A i, j \in DOMAIN order : order[i] = order[j] => i = j
        /\ result' = [op |-> "list_all_users", user_id |-> <<>>,
                      called |-> TRUE, raised |-> list_raises,
                      args |-> NoSearchArg, memories |-> <<>>,
                      value |-> IF list_raises THEN <<>>
                                ELSE list_all_users(order)]
        /\ UNCHANGED <<db, storage, container, temps, nextIno, now, calls, pc, arg,
                       memories, memory_id, data, tmp, pre, outcome, hist>>

\* lines 65-77, called for two ids as test 2 of test_memento_files.py does
get_user_file_paths(u1, u2) ==
    /\ result' = [op |-> "get_user_file_path", user_id |-> u1, called |-> TRUE,
                  raised |-> FALSE, args |-> NoSearchArg, memories |-> <<>>,
                  value |-> [path |-> user_file_path(u1), other_id |-> u2,
                             other_path |-> user_file_path(u2)]]
    /\ UNCHANGED <<db, storage, container, temps, nextIno, now, calls, pc, arg, memories,
                   memory_id, data, tmp, pre, outcome, hist>>

\* time passes
tick ==
    /\ now < MaxTime
    /\ now' = now + 1
    /\ result' = NoResult
    /\ UNCHANGED <<db, storage, container, temps, nextIno, calls, pc, arg, memories,
                   memory_id, data, tmp, pre, outcome, hist>>

\* something outside the store truncates or garbles a container file
corrupt_container(path) ==
    /\ container[path].ino /= 0
    /\ container[path].ok
    /\ container' = [container EXCEPT ![path] = PartialFile(container[path].ino)]
    /\ result' = NoResult
    /\ UNCHANGED <<db, storage, temps, nextIno, now, calls, pc, arg, memories, memory_id,
                   data, tmp, pre, outcome, hist>>

\* something outside the store replaces a container by bytes that are not
\* UTF-8, or by a JSON document that is not an object
garble_container(path, fault) ==
    /\ container[path].ino /= 0
    /\ container[path].ok
    /\ container' = [container EXCEPT
                        ![path] = GarbledFile(container[path].ino, fault)]
    /\ result' = NoResult
    /\ UNCHANGED <<db, storage, temps, nextIno, now, calls, pc, arg, memories, memory_id,
                   data, tmp, pre, outcome, hist>>

AllIdle == \A q \in Procs : pc[q] = "idle"

StoreSteps ==
    \E p \in Procs :
        \/ save_open_temp(p)
        \/ save_open_temp_fail(p)
        \/ save_dump(p)
        \/ save_dump_fail(p)
        \/ save_move(p)
        \/ save_move_fail(p)
        \/ interrupt(p)

Searches ==
    \E u \in Users, a \in SearchArgs :
        search(u, a.query, a.category, a.days_back, a.limit)

\* the calling layer runs one store at a time (section 5 of the design)
SerialCalls ==
    \E p \in Procs, u \in Users, a \in StoreArgs :
        AllIdle /\ store_memory_begin(p, u, a)

NextSerial ==
    \/ SerialCalls
    \/ StoreSteps
    \/ tick

Spec == Init /\ [][NextSerial]_vars

\* serialized stores that all succeed, and searches
NextSearch ==
    \/ SerialCalls
    \/ \E p \in Procs : save_open_temp(p) \/ save_dump(p) \/ save_move(p)
    \/ Searches
    \/ tick

SpecSearch == Init /\ [][NextSearch]_vars

\* serialized calls, and container files damaged from outside
NextFault ==
    \/ NextSerial
    \/ \E path \in Paths : corrupt_container(path)

SpecFault == Init /\ [][NextFault]_vars

\* no exclusion between the processes; the time stamps play no part in the
\* interleavings, so the clock stands still here
NextConc ==
    \/ \E p \in Procs, u \in Users, a \in StoreArgs : store_memory_begin(p, u, a)
    \/ StoreSteps

SpecConc == Init /\ [][NextConc]_vars

\* serialized stores that all succeed, container files damaged from outside,
\* and the three reading functions
NextReaders ==
    \/ SerialCalls
    \/ \E p \in Procs : save_open_temp(p) \/ save_dump(p) \/ save_move(p)
    \/ \E p \in Procs, u \in Users, a \in StoreArgs :
           AllIdle /\ store_memory_load_raises(p, u, a)
    \/ \E path \in Paths : corrupt_container(path)
    \/ \E path \in Paths, fault \in Faults : garble_container(path, fault)
    \/ Searches
    \/ \E u \in Users : summary(u)
    \/ list_users

SpecReaders == Init /\ [][NextReaders]_vars

RECURSIVE stored_list(_)
\* the list `memories` after the store_memory calls cs, each [a, t]: its
\* arguments and the day it was made
stored_list(cs) ==
    IF cs = <<>> THEN <<>>
    ELSE LET mems == stored_list(SubSeq(cs, 1, Len(cs) - 1))
             c == cs[Len(cs)]
         IN  memories_append(mems, new_memory(new_memory_id(mems), c.a, c.t))

\* the container of user_id after its k-th store of cs has been saved
stored_file(user_id, cs, k) ==
    IF k = 0 THEN NoFile
    ELSE JsonFile(k, save_data(user_id, stored_list(SubSeq(cs, 1, k)), cs[k].t))

\* the state after Bob's serialized, successful store_memory calls cs, on day t
AfterStores(cs, t) ==
    LET n == Len(cs)
        mems == stored_list(cs)
    IN  /\ container = [path \in Paths |->
                            IF path = get_user_file_path(Bob)
                            THEN stored_file(Bob, cs, n) ELSE NoFile]
        /\ temps = {}
        /\ nextIno = n + 1
        /\ now = t
        /\ calls = n
        /\ pc = [p \in Procs |-> "idle"]
        /\ arg = [p \in Procs |-> NoArg]
        /\ memories = [p \in Procs |-> <<>>]
        /\ memory_id = [p \in Procs |-> 0]
        /\ data = [p \in Procs |-> NoData]
        /\ tmp = [p \in Procs |-> 0]
        /\ pre = [p \in Procs |-> NoFile]
        /\ outcome = IF n = 0 THEN NoOutcome
                     ELSE [kind |-> "returned", user_id |-> Bob,
                           id |-> mems[n].id, saved |-> TRUE,
                           pre |-> stored_file(Bob, cs, n - 1)]
        /\ hist = [k \in 1..n |-> [user_id |-> Bob, record |-> mems[k]]]
        /\ result = NoResult
        /\ db = <<>>
        /\ storage = EmptyStorage

\* a container holding up to MaxRecs records stored on days that do not
\* decrease, searched on a later day
InitQuery ==
    \E n \in 0..MaxRecs :
        \E cs \in [1..n -> [a : StoreArgs, t : 0..MaxAge]], t \in 0..MaxAge :
            /\ \A i \in 1..n : cs[i].t <= t
            /\ \A i, j \in 1..n : i < j => cs[i].t <= cs[j].t
            /\ AfterStores(cs, t)

\* search_memories reads the container and the clock only, so a run applies
\* it once
NextQuery ==
    \E q \in Queries, c \in Categories, d \in DaysBack, l \in Limits :
        ~result.called /\ search(Bob, q, c, d, recall_limit(l))

SpecQuery == InitQuery /\ [][NextQuery]_vars

(***************************************************************************)
(* src/memento_server.py: the tools of MementoServer over the SQLite table *)
(* `memories`.  A tool is called with the user_id it was given, or None    *)
(* when the key is missing from `arguments`.                               *)
(***************************************************************************)
DefaultUser == <<"d", "e", "f", "a", "u", "l", "t", "_", "u", "s", "e", "r">>

\* arguments.get("user_id", "default_user")
tool_user_id(given) == IF given = None THEN DefaultUser ELSE given

RECURSIVE json_dumps_tags(_)
\* the items of json.dumps(tags), without the brackets
json_dumps_tags(tags) ==
    IF tags = <<>> THEN <<>>
    ELSE <<"\"">> \o Head(tags) \o <<"\"">>
         \o (IF Len(tags) > 1 THEN <<",", " ">> ELSE <<>>)
         \o json_dumps_tags(Tail(tags))

\* MementoMemoryDB.store_memory: one INSERT; the id is AUTOINCREMENT and no
\* row is ever deleted
db_store_memory(rows, user_id, a) ==
    Append(rows,
           [id |-> Len(rows) + 1,
            user_id |-> user_id,
            content |-> a.content,
            category |-> IF a.category = None THEN General ELSE a.category,
            tags |-> <<"[">> \o json_dumps_tags(a.tags) \o <<"]">>,
            importance |-> a.importance,
            created_at |-> now])

\* the WHERE clause MementoMemoryDB.search_memories builds; LIKE ignores
\* the case of ASCII letters
db_row_matches(row, user_id, query, category, days_back) ==
    /\ row.user_id = user_id
    /\ ~(Truthy(category) /\ row.category /= category)
    /\ ~(TruthyInt(days_back) /\ row.created_at < now - days_back[1])
    /\ ~( /\ Truthy(query)
          /\ ~contains(lower(query), lower(row.content))
          /\ ~contains(lower(query), lower(row.tags)) )

\* MementoMemoryDB.get_memory_stats
db_get_memory_stats(user_id) ==
    LET at == {i \in 1..Len(db) : db[i].user_id = user_id}
    IN  [total_memories |-> Cardinality(at),
         categories |-> [c \in {db[i].category : i \in at} |->
                            Cardinality({i \in at : db[i].category = c})],
         recent_memories_7_days |->
             Cardinality({i \in at : db[i].created_at >= now - 7})]

\* what a tool returned: the user id it was given, whether it refused, the
\* user id it acted for (None when it acted for nobody), the rows it read
ToolResult(op, given, refused, acted_for, rows, extra) ==
    [op |-> op, user_id |-> given, called |-> TRUE, raised |-> refused,
     args |-> NoSearchArg, memories |-> rows,
     value |-> [acted_for |-> acted_for, extra |-> extra]]

\* lines 172-211: the store_memory tool
server_store_memory(given, a) ==
    LET user_id == tool_user_id(given)
        refused == ~Truthy(a.content)
    IN  /\ Len(db) < MaxCalls
        /\ db' = IF refused THEN db ELSE db_store_memory(db, user_id, a)
        /\ result' = ToolResult("server.store_memory", given, refused,
                                IF refused THEN None ELSE user_id, <<>>,
                                IF refused THEN 0 ELSE Len(db) + 1)
        /\ UNCHANGED <<container, temps, nextIno, now, calls, pc, arg,
                       memories, memory_id, data, tmp, pre, outcome, hist,
                       storage>>

\* lines 213-261: the recall_memories tool; search_memories (lines 85-127)
\* ends in ORDER BY created_at DESC LIMIT ?, which leaves the order of rows
\* of one created_at open and takes a negative limit as no limit
server_recall_memories(given, a) ==
    LET user_id == tool_user_id(given)
        hits == SelectSeq(db, LAMBDA row :
                    db_row_matches(row, user_id, a.query, a.category,
                                   a.days_back))
        n == Len(hits)
        k == IF a.limit < 0 \/ a.limit > n THEN n ELSE a.limit
    IN  \E order \in [1..n -> 1..n] :
            /\ \A i, j \in 1..n : order[i] = order[j] => i = j
            /\ \A i, j \in 1..n :
                   i < j => hits[order[i]].created_at >= hits[order[j]].created_at
            /\ result' = ToolResult("server.recall_memories", given, FALSE,
                                    user_id, [i \in 1..k |-> hits[order[i]]],
                                    0)
            /\ UNCHANGED db
            /\ UNCHANGED <<container, temps, nextIno, now, calls, pc, arg,
                       memories, memory_id, data, tmp, pre, outcome, hist,
                       storage>>

\* lines 263-289: the get_memory_summary tool
server_get_memory_summary(given) ==
    LET user_id == tool_user_id(given)
    IN  /\ result' = ToolResult("server.get_memory_summary", given, FALSE,
                                user_id, <<>>, db_get_memory_stats(user_id))
        /\ UNCHANGED db
        /\ UNCHANGED <<container, temps, nextIno, now, calls, pc, arg,
                       memories, memory_id, data, tmp, pre, outcome, hist,
                       storage>>

\* src/memento_server_files.py lines 496-502, 539-540, 580-581: the three
\* per-user branches of handle_call_tool start with arguments["user_id"],
\* which raises KeyError when the key is missing
handle_call_tool_without_user_id(name) ==
    /\ result' = ToolResult(name, None, TRUE, None, <<>>, 0)
    /\ UNCHANGED db
    /\ UNCHANGED <<container, temps, nextIno, now, calls, pc, arg,
                   memories, memory_id, data, tmp, pre, outcome, hist,
                   storage>>

PerUserTools == {"store_memory", "recall_memories", "get_memory_summary"}

\* paths resolved, nothing stored; the function reads no state, so a run
\* applies it once
NextPath ==
    \E u1 \in PathIds, u2 \in PathIds :
        ~result.called /\ get_user_file_paths(u1, u2)

SpecPath == Init /\ [][NextPath]_vars

\* a store_memory call whose content is the empty string
EmptyContent ==
    [content |-> <<>>, category |-> None, tags |-> <<>>, importance |-> 5]

\* a store_memory call whose importance is outside 1..10
ImportanceOutOfRange ==
    [content |-> <<"c">>, category |-> None, tags |-> <<>>, importance |-> 11]

\* serialized stores that all succeed, with every user id, content and
\* importance a caller can pass
NextAnyInput ==
    \/ \E p \in Procs, u \in AllUsers,
          a \in StoreArgs \cup {EmptyContent, ImportanceOutOfRange} :
           AllIdle /\ store_memory_begin(p, u, a)
    \/ \E p \in Procs : save_open_temp(p) \/ save_dump(p) \/ save_move(p)

SpecAnyInput == Init /\ [][NextAnyInput]_vars

\* the tools of both servers, called with and without a user id
NextTools ==
    \/ \E given \in Users \cup {None}, a \in StoreArgs \cup {EmptyContent} :
           server_store_memory(given, a)
    \/ \E given \in Users \cup {None}, a \in SearchArgs :
           server_recall_memories(given, a)
    \/ \E given \in Users \cup {None} : server_get_memory_summary(given)
    \/ \E name \in PerUserTools : handle_call_tool_without_user_id(name)
    \/ tick

SpecTools == Init /\ [][NextTools]_vars

(***************************************************************************)
(* mcpmemento/memento_mcp_server.py: one content file and one .meta file   *)
(* per memory, in one directory per user under memento_storage.  In the    *)
(* runs of this server `now` counts seconds, hist holds its successful     *)
(* stores as [user_id, record], and every file carries store_no, the       *)
(* position in hist of the store that wrote it.                            *)
(***************************************************************************)
Whitespace == {" ", "\t", "\n"}

RECURSIVE lstrip(_)
lstrip(s) ==
    IF s /= <<>> /\ Head(s) \in Whitespace THEN lstrip(Tail(s)) ELSE s

RECURSIVE rstrip(_)
rstrip(s) ==
    IF s /= <<>> /\ s[Len(s)] \in Whitespace
    THEN rstrip(SubSeq(s, 1, Len(s) - 1))
    ELSE s

\* str.strip()
strip(s) == rstrip(lstrip(s))

RECURSIVE split(_, _, _)
\* str.split(sep) for a one-character sep; cur is the piece being read
split(s, sep, cur) ==
    IF s = <<>> THEN <<cur>>
    ELSE IF Head(s) = sep THEN <<cur>> \o split(Tail(s), sep, <<>>)
    ELSE split(Tail(s), sep, Append(cur, Head(s)))

\* re.sub(r'[^...]', '_', s) for a character class that keeps `keep`
re_sub_other(keep, s) ==
    [i \in 1..Len(s) |-> IF s[i] \in keep THEN s[i] ELSE "_"]

\* line 30: the directory name of a user, [^a-zA-Z0-9_-] replaced
safe_user_id(user_id) == re_sub_other(WordChars \cup {"-"}, user_id)

\* line 56: [^a-zA-Z0-9._-] replaced
safe_filename(filename) == re_sub_other(WordChars \cup {"-", "."}, filename)

\* strftime("%Y%m%d_%H%M%S"): one text per second of the clock
Digits == <<"0", "1", "2", "3", "4", "5", "6", "7", "8", "9">>
strftime(t) == <<Digits[t + 1]>>

\* line 57
stored_filename(filename, t) ==
    strftime(t) \o <<"_">> \o safe_filename(filename)

\* line 183: f"memory_{timestamp}.txt"
default_filename(t) ==
    <<"m", "e", "m", "o", "r", "y", "_">> \o strftime(t)
        \o <<".", "t", "x", "t">>

META == <<".", "m", "e", "t", "a">>

\* the metadata of a file that is not a metadata file
NoMeta == [filename |-> <<>>, timestamp |-> -1, size |-> 0, tags |-> <<>>,
           description |-> <<>>, stored_filename |-> <<>>]

\* lines 35-47 and 66-68; the content hash, which nothing reads, is left out
create_file_metadata(filename, content, tags, description, stored, t) ==
    [filename |-> filename, timestamp |-> t, size |-> Len(content),
     tags |-> tags, description |-> description, stored_filename |-> stored]

\* open(path, 'w'): the file at that path is replaced
write_file(files, f) ==
    {g \in files : ~(g.dir = f.dir /\ g.name = f.name)} \cup {f}

\* lines 27-33: get_user_directory creates the directory
mkdir(st, dir) == [st EXCEPT !.dirs = @ \cup {dir}]

\* lines 49-76, for store number k at time t
save_user_file(st, user_id, filename, content, description, tags, t, k) ==
    LET dir == safe_user_id(user_id)
        stored == stored_filename(filename, t)
        content_file == [dir |-> dir, name |-> stored, text |-> content,
                         meta |-> NoMeta, store_no |-> k]
        meta_file == [dir |-> dir, name |-> stored \o META, text |-> <<>>,
                      meta |-> create_file_metadata(filename, content, tags,
                                                    description, stored, t),
                      store_no |-> k]
    IN  [dirs |-> st.dirs \cup {dir},
         files |-> write_file(write_file(st.files, content_file), meta_file)]

\* line 186: the comma-separated tags, stripped, empty ones dropped
tag_list(tags) ==
    LET kept == SelectSeq(split(tags, ",", <<>>),
                          LAMBDA tg : strip(tg) /= <<>>)
    IN  IF tags = <<>> THEN <<>>
        ELSE [i \in 1..Len(kept) |-> strip(kept[i])]

SECONDS_PER_DAY == 86400
date(t) == t \div SECONDS_PER_DAY

\* lines 94-112
passes_time_filter(time_filter, file_time, t) ==
    CASE time_filter = "today" -> date(file_time) = date(t)
      [] time_filter = "yesterday" -> date(file_time) = date(t) - 1
      [] time_filter = "last_week" -> file_time >= t - 7 * SECONDS_PER_DAY
      [] time_filter = "last_month" -> file_time >= t - 30 * SECONDS_PER_DAY
      [] OTHER -> TRUE

\* lines 117-133
passes_query(st, dir, md, query) ==
    LET content_files == {f \in st.files :
                             f.dir = dir /\ f.name = md.stored_filename}
        base == md.filename \o <<" ">> \o md.description
        searchable_text ==
            IF content_files = {} THEN base
            ELSE base \o <<" ">> \o (CHOOSE f \in content_files : TRUE).text
    IN  query = <<>> \/ contains(lower(query), lower(searchable_text))

\* user_dir.glob("*.meta"): chosen by name
meta_files(st, dir) == {f \in st.files : f.dir = dir /\ endswith(f.name, META)}

\* lines 78-145, before the sort: the metadata files that load and pass
search_user_files(st, user_id, query, time_filter, tag_filter, t) ==
    LET dir == safe_user_id(user_id)
    IN  {f \in meta_files(st, dir) :
            /\ f.meta /= NoMeta
            /\ passes_time_filter(time_filter, f.meta.timestamp, t)
            /\ (tag_filter = <<>>
                \/ \E i \in 1..Len(f.meta.tags) : f.meta.tags[i] = tag_filter)
            /\ passes_query(st, dir, f.meta, query)}

RECURSIVE os_walk(_, _)
\* the kernel's walk of `user_dir / memory_id` below memento_storage: ".."
\* goes up one directory, and stays as ".." once above memento_storage
os_walk(stack, parts) ==
    IF parts = <<>> THEN stack
    ELSE IF Head(parts) = <<".", ".">>
    THEN os_walk(IF stack = <<>> \/ stack[Len(stack)] = <<".", ".">>
                 THEN Append(stack, <<".", ".">>)
                 ELSE SubSeq(stack, 1, Len(stack) - 1),
                 Tail(parts))
    ELSE os_walk(Append(stack, Head(parts)), Tail(parts))

\* lines 151 and 296-297: where `user_dir / stored_id` leads
resolve(dir, stored_id) ==
    IF stored_id /= <<>> /\ Head(stored_id) = "/"
    THEN << <<".", ".">> >>
    ELSE os_walk(<<dir>>, path_parts(stored_id, <<>>))

\* the files at a resolved path: one file, or none.  A path that leads to a
\* directory can be neither read nor unlinked (the tools catch the error and
\* report it), and nothing outside memento_storage is taken to exist
files_at(st, p) ==
    IF Len(p) = 2 THEN {f \in st.files : f.dir = p[1] /\ f.name = p[2]}
    ELSE {}

McpResult(op, user_id, refused, rows, value) ==
    [op |-> op, user_id |-> user_id, called |-> TRUE, raised |-> refused,
     args |-> NoSearchArg, memories |-> rows, value |-> value]

\* lines 163-188
mcp_store_memory(user_id, content, filename, description, tags) ==
    LET refused == strip(user_id) = <<>> \/ strip(content) = <<>>
        name == IF Truthy(filename) THEN filename ELSE default_filename(now)
        k == Len(hist) + 1
    IN  /\ calls < MaxCalls
        /\ IF refused
           THEN /\ UNCHANGED <<storage, hist, calls>>
                /\ result' = McpResult("mcp.store_memory", user_id, TRUE,
                                       <<>>, [touched |-> {}])
           ELSE /\ storage' = save_user_file(storage, user_id, name, content,
                                             description, tag_list(tags),
                                             now, k)
                /\ hist' = Append(hist,
                       [user_id |-> user_id,
                        record |-> [dir |-> safe_user_id(user_id),
                                    stored_filename |->
                                        stored_filename(name, now),
                                    content |-> content,
                                    created_at |-> now]])
                /\ calls' = calls + 1
                /\ result' = McpResult("mcp.store_memory", user_id, FALSE,
                                       <<>>, [touched |-> {k}])
        /\ UNCHANGED <<container, temps, nextIno, now, pc, arg, memories,
                       memory_id, data, tmp, pre, outcome, db>>

\* lines 190-239; the sort of line 141 leaves the order of files of one
\* timestamp to the order glob gave
mcp_retrieve_memories(user_id, query, time_filter, tag_filter, limit) ==
    /\ IF strip(user_id) = <<>>
       THEN /\ UNCHANGED storage
            /\ result' = McpResult("mcp.retrieve_memories", user_id, TRUE,
                                   <<>>, [touched |-> {}, count |-> 0,
                                          filtered |-> FALSE, limit |-> limit])
       ELSE LET hits == search_user_files(storage, user_id, query,
                                          time_filter, tag_filter, now)
                n == Cardinality(hits)
            IN  \E results \in [1..n -> hits] :
                    /\ \A i, j \in 1..n : results[i] = results[j] => i = j
                    /\ \A i, j \in 1..n :
                           i < j => results[i].meta.timestamp
                                        >= results[j].meta.timestamp
                    /\ LET shown == slice_to(results, limit)
                       IN  result' = McpResult(
                               "mcp.retrieve_memories", user_id, FALSE,
                               [i \in 1..Len(shown) |-> shown[i].meta],
                               [touched |-> {shown[i].store_no :
                                                i \in 1..Len(shown)},
                                count |-> Len(shown),
                                filtered |-> query /= <<>>
                                                \/ time_filter /= ""
                                                \/ tag_filter /= <<>>,
                                limit |-> limit])
                    /\ storage' = mkdir(storage, safe_user_id(user_id))
    /\ UNCHANGED <<container, temps, nextIno, now, calls, pc, arg, memories,
                   memory_id, data, tmp, pre, outcome, hist, db>>

\* lines 241-255 and 147-159
mcp_get_memory_content(user_id, stored_id) ==
    LET dir == safe_user_id(user_id)
        p == resolve(dir, stored_id)
        st == mkdir(storage, dir)
        found == files_at(st, p)
    IN  /\ IF strip(user_id) = <<>> \/ strip(stored_id) = <<>>
           THEN /\ UNCHANGED storage
                /\ result' = McpResult("mcp.get_memory_content", user_id,
                                       TRUE, <<>>, [touched |-> {}])
           ELSE /\ storage' = st
                /\ result' = McpResult(
                       "mcp.get_memory_content", user_id, found = {},
                       <<>>,
                       [touched |-> {f.store_no : f \in found},
                        content |-> {[text |-> f.text, meta |-> f.meta] :
                                        f \in found}])
        /\ UNCHANGED <<container, temps, nextIno, now, calls, pc, arg,
                       memories, memory_id, data, tmp, pre, outcome, hist,
                       db>>

\* lines 278-308.  The calls
\* that write or delete files are counted together and capped by MaxCalls
mcp_delete_memory(user_id, stored_id) ==
    LET dir == safe_user_id(user_id)
        st == mkdir(storage, dir)
        content_file == files_at(st, resolve(dir, stored_id))
        meta_file == files_at(st, resolve(dir, stored_id \o META))
        gone == content_file \cup meta_file
    IN  /\ calls < MaxCalls
        /\ IF strip(user_id) = <<>> \/ strip(stored_id) = <<>>
           THEN /\ UNCHANGED <<storage, calls>>
                /\ result' = McpResult("mcp.delete_memory", user_id, TRUE,
                                       <<>>, [touched |-> {}])
           ELSE IF content_file = {}
           THEN /\ storage' = st
                /\ UNCHANGED calls
                /\ result' = McpResult("mcp.delete_memory", user_id, TRUE,
                                       <<>>, [touched |-> {}])
           ELSE /\ storage' = [st EXCEPT !.files = @ \ gone]
                /\ calls' = calls + 1
                /\ result' = McpResult("mcp.delete_memory", user_id, FALSE,
                                       <<>>,
                                       [touched |-> {f.store_no : f \in gone}])
        /\ UNCHANGED <<container, temps, nextIno, now, pc, arg,
                       memories, memory_id, data, tmp, pre, outcome, hist,
                       db>>

RECURSIVE total_size(_)
\* lines 336-350: the sizes of the metadata files that load, added up
total_size(fs) ==
    IF fs = {} THEN 0
    ELSE LET f == CHOOSE g \in fs : TRUE
         IN  f.meta.size + total_size(fs \ {f})

\* lines 310-365
mcp_get_user_stats(user_id) ==
    LET dir == safe_user_id(user_id)
        metas == meta_files(storage, dir)
    IN  /\ IF strip(user_id) = <<>>
           THEN /\ UNCHANGED storage
                /\ result' = McpResult("mcp.get_user_stats", user_id, TRUE,
                                       <<>>, [touched |-> {}, count |-> 0])
           ELSE /\ storage' = mkdir(storage, dir)
                /\ result' = McpResult(
                       "mcp.get_user_stats", user_id, FALSE, <<>>,
                       [touched |-> {f.store_no : f \in metas},
                        count |-> Cardinality(metas),
                        total_size |->
                            total_size({f \in metas : f.meta /= NoMeta})])
        /\ UNCHANGED <<container, temps, nextIno, now, calls, pc, arg,
                       memories, memory_id, data, tmp, pre, outcome, hist,
                       db>>

\* lines 257-276: the directories that hold at least one *.meta file
mcp_list_users ==
    /\ result' = McpResult(
           "mcp.list_users", <<>>, FALSE, <<>>,
           [touched |-> {},
            users |-> {[name |-> d,
                        count |-> Cardinality(meta_files(storage, d))] :
                          d \in {e \in storage.dirs :
                                    meta_files(storage, e) /= {}}}])
    /\ UNCHANGED <<container, temps, nextIno, now, calls, pc, arg, memories,
                   memory_id, data, tmp, pre, outcome, hist, db, storage>>

\* user ids: one plain, two that differ only in a character the pattern of
\* line 30 replaces, and one that is blank
Alice == <<"a">>
McpUsers == {Alice, <<"a", ".">>, <<"a", "_">>, <<"\t">>}
\* content, filename and tags of a store_memory call: no filename, the same
\* filename with two contents, and a blank content
McpStoreArgs ==
    {[content |-> <<"c">>, filename |-> None, tags |-> <<>>],
     [content |-> <<"c">>, filename |-> <<"n">>, tags |-> <<>>],
     [content |-> <<"d">>, filename |-> <<"n">>, tags |-> <<"t", ",", " ">>],
     [content |-> <<" ">>, filename |-> None, tags |-> <<>>]}
McpQueries == {<<>>, <<"C">>}
McpTimeFilters == {"", "today", "yesterday"}
McpTagFilters == {<<>>, <<"t">>}
RETRIEVE_DEFAULT_LIMIT == 10
McpLimits == {RETRIEVE_DEFAULT_LIMIT, 1}

\* memory ids a caller can pass: the ID retrieve_memories shows for any
\* stored file, that ID reached through "..", "..", and a blank text
McpMemoryIds ==
    {f.name : f \in storage.files}
        \cup {<<".", ".", "/">> \o f.dir \o <<"/">> \o f.name :
                 f \in storage.files}
        \cup {<<".", ".">>, <<" ">>}

McpStores(users) ==
    \E user_id \in users, a \in McpStoreArgs :
        mcp_store_memory(user_id, a.content, a.filename, <<>>, a.tags)

McpRetrieves(users) ==
    \E user_id \in users, query \in McpQueries,
       time_filter \in McpTimeFilters, tag_filter \in McpTagFilters,
       limit \in McpLimits :
        mcp_retrieve_memories(user_id, query, time_filter, tag_filter, limit)

McpReadOps == {"mcp.retrieve_memories", "mcp.get_memory_content",
               "mcp.get_user_stats", "mcp.list_users"}

\* the step before was not a read: the runs put one read between two calls
\* that write or delete
AfterWrite == result.op \notin McpReadOps

\* every tool of the one-file-per-memory server
NextMcp ==
    \/ McpStores(McpUsers)
    \/ AfterWrite /\ McpRetrieves(McpUsers)
    \/ \E user_id \in McpUsers, id \in McpMemoryIds :
           AfterWrite /\ mcp_get_memory_content(user_id, id)
    \/ \E user_id \in McpUsers, id \in McpMemoryIds :
           mcp_delete_memory(user_id, id)
    \/ \E user_id \in McpUsers : AfterWrite /\ mcp_get_user_stats(user_id)
    \/ AfterWrite /\ mcp_list_users
    \/ tick

SpecMcp == Init /\ [][NextMcp]_vars

\* user ids that have a directory each
McpOwnDirUsers == McpUsers \ {<<"a", "_">>}

\* stores and the two tools that count, nothing deleted, for users that
\* share no directory
NextMcpStores ==
    \/ McpStores(McpOwnDirUsers)
    \/ AfterWrite /\ McpRetrieves(McpOwnDirUsers)
    \/ \E user_id \in McpOwnDirUsers :
           AfterWrite /\ mcp_get_user_stats(user_id)
    \/ tick

SpecMcpStores == Init /\ [][NextMcpStores]_vars

(***************************************************************************)
(* MementoParser (src/memento_server_files.py, lines 260-378): the two     *)
(* parsers of natural-language commands, character by character.           *)
(***************************************************************************)
\* \b between s[i] and s[i+1] (i = 0 is the start, i = Len(s) the end)
word_boundary(s, i) ==
    (i >= 1 /\ s[i] \in WordChars) /= (i < Len(s) /\ s[i + 1] \in WordChars)

\* the regular expression \bw\b matches s at position i
match_at(s, i, w) ==
    /\ i + Len(w) - 1 <= Len(s)
    /\ SubSeq(s, i, i + Len(w) - 1) = w
    /\ word_boundary(s, i - 1)
    /\ word_boundary(s, i + Len(w) - 1)

\* re.search(r'\b(w1|w2|...)\b', s)
re_search(ws, s) ==
    \E i \in 1..Len(s), k \in 1..Len(ws) : match_at(s, i, ws[k])

RECURSIVE re_sub_from(_, _, _)
\* re.sub(r'\b(w1|w2|...)\b', '', s) from position i on: the leftmost match
\* is removed, of the first alternative that matches there, and the scan
\* goes on behind it
re_sub_from(ws, s, i) ==
    LET starts == {j \in i..Len(s) :
                      \E k \in 1..Len(ws) : match_at(s, j, ws[k])}
    IN  IF starts = {} THEN SubSeq(s, i, Len(s))
        ELSE LET j == CHOOSE x \in starts : \A y \in starts : x <= y
                 hits == {k \in 1..Len(ws) : match_at(s, j, ws[k])}
                 k == CHOOSE h \in hits : \A g \in hits : h <= g
             IN  SubSeq(s, i, j - 1) \o re_sub_from(ws, s, j + Len(ws[k]))

re_sub_words(ws, s) == re_sub_from(ws, s, 1)

RECURSIVE re_sub_each(_, _)
\* one re.sub per pattern, in order
re_sub_each(ws, s) ==
    IF ws = <<>> THEN s
    ELSE re_sub_each(Tail(ws), re_sub_words(<<Head(ws)>>, s))

\* the end of the run of \w characters that starts at position i
word_end(s, i) ==
    CHOOSE j \in i..Len(s) :
        /\ \A x \in i..j : s[x] \in WordChars
        /\ j = Len(s) \/ s[j + 1] \notin WordChars

\* the positions from i on where #\w+ matches
hashtag_starts(s, i) ==
    {j \in i..(Len(s) - 1) : s[j] = "#" /\ s[j + 1] \in WordChars}

RECURSIVE findall_hashtags(_, _)
\* re.findall(r'#(\w+)', s) from position i on
findall_hashtags(s, i) ==
    LET starts == hashtag_starts(s, i)
    IN  IF starts = {} THEN <<>>
        ELSE LET j == CHOOSE x \in starts : \A y \in starts : x <= y
             IN  <<SubSeq(s, j + 1, word_end(s, j + 1))>>
                     \o findall_hashtags(s, word_end(s, j + 1) + 1)

RECURSIVE sub_hashtags(_, _)
\* re.sub(r'#\w+', '', s) from position i on
sub_hashtags(s, i) ==
    LET starts == hashtag_starts(s, i)
    IN  IF starts = {} THEN SubSeq(s, i, Len(s))
        ELSE LET j == CHOOSE x \in starts : \A y \in starts : x <= y
             IN  SubSeq(s, i, j - 1)
                     \o sub_hashtags(s, word_end(s, j + 1) + 1)

\* line 267
store_triggers ==
    <<
      <<"h", "e", "y", " ", "m", "e", "m", "e", "n", "t", "o">>,
      <<"m", "e", "m", "e", "n", "t", "o">>,
      <<"r", "e", "m", "e", "m", "b", "e", "r">>,
      <<"s", "t", "o", "r", "e">>,
      <<"s", "a", "v", "e">>
    >>

\* lines 274-282, in the order of the dict
store_category_patterns ==
    <<
      [category |-> <<"w", "o", "r", "k">>,
       words |-> <<
          <<"w", "o", "r", "k">>,
          <<"j", "o", "b">>,
          <<"m", "e", "e", "t", "i", "n", "g">>,
          <<"p", "r", "o", "j", "e", "c", "t">>,
          <<"t", "a", "s", "k">>,
          <<"d", "e", "a", "d", "l", "i", "n", "e">>,
          <<"o", "f", "f", "i", "c", "e">>
       >>],
      [category |-> <<"p", "e", "r", "s", "o", "n", "a", "l">>,
       words |-> <<
          <<"p", "e", "r", "s", "o", "n", "a", "l">>,
          <<"f", "a", "m", "i", "l", "y">>,
          <<"f", "r", "i", "e", "n", "d">>,
          <<"h", "o", "m", "e">>,
          <<"p", "r", "i", "v", "a", "t", "e">>
       >>],
      [category |-> <<"i", "d", "e", "a", "s">>,
       words |-> <<
          <<"i", "d", "e", "a">>,
          <<"t", "h", "o", "u", "g", "h", "t">>,
          <<"c", "o", "n", "c", "e", "p", "t">>,
          <<"b", "r", "a", "i", "n", "s", "t", "o", "r", "m">>,
          <<"i", "n", "s", "p", "i", "r", "a", "t", "i", "o", "n">>
       >>],
      [category |-> <<"t", "a", "s", "k", "s">>,
       words |-> <<
          <<"t", "o", "d", "o">>,
          <<"t", "a", "s", "k">>,
          <<"r", "e", "m", "i", "n", "d", "e", "r">>,
          <<"d", "o">>,
          <<"c", "o", "m", "p", "l", "e", "t", "e">>,
          <<"f", "i", "n", "i", "s", "h">>
       >>],
      [category |-> <<"n", "o", "t", "e", "s">>,
       words |-> <<
          <<"n", "o", "t", "e">>,
          <<"j", "o", "t">>,
          <<"w", "r", "i", "t", "e", " ", "d", "o", "w", "n">>,
          <<"r", "e", "c", "o", "r", "d">>,
          <<"r", "e", "m", "e", "m", "b", "e", "r">>
       >>],
      [category |-> <<"c", "o", "n", "t", "a", "c", "t", "s">>,
       words |-> <<
          <<"c", "o", "n", "t", "a", "c", "t">>,
          <<"p", "e", "r", "s", "o", "n">>,
          <<"p", "h", "o", "n", "e">>,
          <<"e", "m", "a", "i", "l">>,
          <<"a", "d", "d", "r", "e", "s", "s">>
       >>],
      [category |-> <<"e", "v", "e", "n", "t", "s">>,
       words |-> <<
          <<"m", "e", "e", "t", "i", "n", "g">>,
          <<"e", "v", "e", "n", "t">>,
          <<"a", "p", "p", "o", "i", "n", "t", "m", "e", "n", "t">>,
          <<"c", "o", "n", "f", "e", "r", "e", "n", "c", "e">>,
          <<"c", "a", "l", "l">>
       >>]
    >>

\* line 295
importance_high ==
    <<
      <<"i", "m", "p", "o", "r", "t", "a", "n", "t">>,
      <<"u", "r", "g", "e", "n", "t">>,
      <<"c", "r", "i", "t", "i", "c", "a", "l">>,
      <<"c", "r", "u", "c", "i", "a", "l">>
    >>

\* line 297
importance_low ==
    <<
      <<"m", "i", "n", "o", "r">>,
      <<"s", "m", "a", "l", "l">>,
      <<"s", "i", "m", "p", "l", "e">>,
      <<"l", "o", "w">>
    >>

RECURSIVE detect_category(_, _)
\* lines 284-288 and 359-363: the category of the first pattern that matches
detect_category(patterns, clean_text) ==
    IF patterns = <<>> THEN None
    ELSE IF re_search(Head(patterns).words, clean_text)
    THEN Head(patterns).category
    ELSE detect_category(Tail(patterns), clean_text)

\* lines 263-309
parse_store_command(text) ==
    LET clean_text == strip(re_sub_each(store_triggers, lower(text)))
    IN  [content |->
             strip(re_sub_words(importance_high \o importance_low,
                                strip(sub_hashtags(clean_text, 1)))),
         category |-> detect_category(store_category_patterns, clean_text),
         tags |-> findall_hashtags(text, 1),
         importance |->
             IF re_search(importance_high, clean_text) THEN 8
             ELSE IF re_search(importance_low, clean_text) THEN 3
             ELSE 5]

\* line 317
recall_triggers ==
    <<
      <<"h", "e", "y", " ", "m", "e", "m", "e", "n", "t", "o">>,
      <<"m", "e", "m", "e", "n", "t", "o">>,
      <<"r", "e", "c", "a", "l", "l">>,
      <<"r", "e", "m", "e", "m", "b", "e", "r">>,
      <<"w", "h", "a", "t">>,
      <<"f", "i", "n", "d">>,
      <<"s", "e", "a", "r", "c", "h">>,
      <<"s", "h", "o", "w", " ", "m", "e">>
    >>

\* lines 323-346: the periods in the order of the dict, with the days_back
\* each one gives
time_patterns ==
    <<
      [days_back |-> 1,
       words |-> <<
          <<"t", "o", "d", "a", "y">>
       >>],
      [days_back |-> 2,
       words |-> <<
          <<"y", "e", "s", "t", "e", "r", "d", "a", "y">>
       >>],
      [days_back |-> 7,
       words |-> <<
          <<"t", "h", "i", "s", " ", "w", "e", "e", "k">>
       >>],
      [days_back |-> 14,
       words |-> <<
          <<"l", "a", "s", "t", " ", "w", "e", "e", "k">>
       >>],
      [days_back |-> 30,
       words |-> <<
          <<"t", "h", "i", "s", " ", "m", "o", "n", "t", "h">>
       >>],
      [days_back |-> 60,
       words |-> <<
          <<"l", "a", "s", "t", " ", "m", "o", "n", "t", "h">>
       >>],
      [days_back |-> 365,
       words |-> <<
          <<"t", "h", "i", "s", " ", "y", "e", "a", "r">>
       >>]
    >>

\* lines 349-357, in the order of the dict
recall_category_patterns ==
    <<
      [category |-> <<"w", "o", "r", "k">>,
       words |-> <<
          <<"w", "o", "r", "k">>,
          <<"j", "o", "b">>,
          <<"m", "e", "e", "t", "i", "n", "g">>,
          <<"p", "r", "o", "j", "e", "c", "t">>
       >>],
      [category |-> <<"p", "e", "r", "s", "o", "n", "a", "l">>,
       words |-> <<
          <<"p", "e", "r", "s", "o", "n", "a", "l">>,
          <<"f", "a", "m", "i", "l", "y">>,
          <<"f", "r", "i", "e", "n", "d">>
       >>],
      [category |-> <<"i", "d", "e", "a", "s">>,
       words |-> <<
          <<"i", "d", "e", "a">>,
          <<"i", "d", "e", "a", "s">>,
          <<"t", "h", "o", "u", "g", "h", "t">>,
          <<"t", "h", "o", "u", "g", "h", "t", "s">>
       >>],
      [category |-> <<"t", "a", "s", "k", "s">>,
       words |-> <<
          <<"t", "a", "s", "k">>,
          <<"t", "a", "s", "k", "s">>,
          <<"t", "o", "d", "o">>,
          <<"r", "e", "m", "i", "n", "d", "e", "r">>
       >>],
      [category |-> <<"n", "o", "t", "e", "s">>,
       words |-> <<
          <<"n", "o", "t", "e">>,
          <<"n", "o", "t", "e", "s">>
       >>],
      [category |-> <<"c", "o", "n", "t", "a", "c", "t", "s">>,
       words |-> <<
          <<"c", "o", "n", "t", "a", "c", "t">>,
          <<"c", "o", "n", "t", "a", "c", "t", "s">>,
          <<"p", "e", "r", "s", "o", "n">>,
          <<"p", "e", "o", "p", "l", "e">>
       >>],
      [category |-> <<"e", "v", "e", "n", "t", "s">>,
       words |-> <<
          <<"m", "e", "e", "t", "i", "n", "g">>,
          <<"m", "e", "e", "t", "i", "n", "g", "s">>,
          <<"e", "v", "e", "n", "t">>,
          <<"e", "v", "e", "n", "t", "s">>,
          <<"a", "p", "p", "o", "i", "n", "t", "m", "e", "n", "t">>
       >>]
    >>

\* line 372
filler_words ==
    <<
      <<"d", "i", "d", " ", "i">>,
      <<"a", "b", "o", "u", "t">>,
      <<"f", "r", "o", "m">>,
      <<"f", "o", "r">>,
      <<"w", "i", "t", "h">>,
      <<"a", "l", "l">>,
      <<"m", "y">>
    >>

RECURSIVE detect_days_back(_, _)
\* lines 333-346
detect_days_back(patterns, clean_text) ==
    IF patterns = <<>> THEN NoneInt
    ELSE IF re_search(Head(patterns).words, clean_text)
    THEN <<Head(patterns).days_back>>
    ELSE detect_days_back(Tail(patterns), clean_text)

RECURSIVE re_sub_patterns(_, _)
\* lines 367-370: one re.sub per pattern, in order
re_sub_patterns(patterns, s) ==
    IF patterns = <<>> THEN s
    ELSE re_sub_patterns(Tail(patterns), re_sub_words(Head(patterns).words, s))

\* lines 311-378
parse_recall_command(text) ==
    LET clean_text == strip(re_sub_each(recall_triggers, lower(text)))
        query_text ==
            strip(re_sub_words(filler_words,
                      re_sub_patterns(recall_category_patterns,
                          re_sub_patterns(time_patterns, clean_text))))
    IN  [query |-> IF query_text /= <<>> THEN query_text ELSE None,
         category |-> detect_category(recall_category_patterns, clean_text),
         days_back |-> detect_days_back(time_patterns, clean_text)]

\* the command of the documented scenario
DentistText ==
    <<"H", "e", "y", " ", "M", "e", "m", "e", "n", "t", "o", ",", " ", "r",
      "e", "m", "e", "m", "b", "e", "r", " ", "t", "h", "a", "t", " ", "m",
      "y", " ", "d", "e", "n", "t", "i", "s", "t", " ", "a", "p", "p", "o",
      "i", "n", "t", "m", "e", "n", "t", " ", "i", "s", " ", "n", "e", "x",
      "t", " ", "T", "u", "e", "s", "d", "a", "y", " ", "#", "h", "e", "a",
      "l", "t", "h", " ", "#", "i", "m", "p", "o", "r", "t", "a", "n", "t">>

\* words of the commands: keywords of the clusters, a trigger, a hashtag, an
\* importance hint and words that are none of these
Vocabulary ==
    <<
      <<"t", "a", "s", "k">>,
      <<"t", "o", "d", "o">>,
      <<"r", "e", "m", "i", "n", "d", "e", "r">>,
      <<"w", "o", "r", "k">>,
      <<"m", "e", "e", "t", "i", "n", "g">>,
      <<"f", "a", "m", "i", "l", "y">>,
      <<"i", "d", "e", "a">>,
      <<"t", "h", "o", "u", "g", "h", "t">>,
      <<"a", "p", "p", "o", "i", "n", "t", "m", "e", "n", "t">>,
      <<"n", "o", "t", "e">>,
      <<"m", "i", "l", "k">>,
      <<"u", "r", "g", "e", "n", "t">>,
      <<"R", "e", "m", "e", "m", "b", "e", "r">>,
      <<"#", "t", "a", "g">>,
      <<"m", "y">>
    >>

\* the commands of at most MaxWords words of the vocabulary
MaxWords == 2

RECURSIVE CommandsOf(_)
CommandsOf(n) ==
    IF n = 1 THEN {Vocabulary[i] : i \in 1..Len(Vocabulary)}
    ELSE CommandsOf(n - 1)
             \cup {t \o <<" ">> \o Vocabulary[i] :
                      t \in CommandsOf(n - 1), i \in 1..Len(Vocabulary)}

Commands == CommandsOf(MaxWords) \cup {DentistText}

ParseResult(op, text, parsed) ==
    [op |-> op, user_id |-> <<>>, called |-> TRUE, raised |-> FALSE,
     args |-> NoSearchArg, memories |-> <<>>,
     value |-> [text |-> text, parsed |-> parsed]]

parse_store(text) ==
    /\ result' = ParseResult("parse_store_command", text,
                             parse_store_command(text))
    /\ UNCHANGED <<container, temps, nextIno, now, calls, pc, arg, memories,
                   memory_id, data, tmp, pre, outcome, hist, db, storage>>

parse_recall(text) ==
    /\ result' = ParseResult("parse_recall_command", text,
                             parse_recall_command(text))
    /\ UNCHANGED <<container, temps, nextIno, now, calls, pc, arg, memories,
                   memory_id, data, tmp, pre, outcome, hist, db, storage>>

\* the parsers read no state, so a run applies one of them once
NextParse ==
    \/ \E text \in Commands : ~result.called /\ parse_store(text)
    \/ \E text \in Commands : ~result.called /\ parse_recall(text)

SpecParse == Init /\ [][NextParse]_vars

(***************************************************************************)
(* What the runs are checked against.                                      *)
(***************************************************************************)
\* the records of the successful stores made for user u
StoredUnder(u) ==
    {hist[k].record : k \in {j \in 1..Len(hist) : hist[j].user_id = u}}

\* the ids the successful stores of user u returned, in order
RECURSIVE ReturnedIds(_, _)
ReturnedIds(h, u) ==
    IF h = <<>> THEN <<>>
    ELSE IF Head(h).user_id = u
         THEN <<Head(h).record.id>> \o ReturnedIds(Tail(h), u)
         ELSE ReturnedIds(Tail(h), u)

Records(path) == {container[path].data.memories[i] :
                     i \in 1..Len(container[path].data.memories)}

Ids(path) == {m.id : m \in Records(path)}

\* the file was there and could not be parsed
Unparsable(f) == f.ino /= 0 /\ ~f.ok

\* C1: a search for one user never returns a record that was stored under
\* another user (and not under the searching user as well).
C1_Isolation ==
    \A i \in 1..Len(result.memories) :
        \A u1 \in Users \ {result.user_id} :
            result.memories[i] \notin
                (StoredUnder(u1) \ StoredUnder(result.user_id))

\* C2: with the calls serialized, the container of a user holds every record
\* of every completed store of that user, field for field as it was stored.
C2_NoCompletedWriteLost ==
    \A k \in 1..Len(hist) :
        hist[k].record \in Records(get_user_file_path(hist[k].user_id))

\* a second store of one user has completed on top of the first
C2_Witness ==
    /\ Len(hist) = 2
    /\ hist[1].user_id = hist[2].user_id
    /\ hist[1].record.content /= hist[2].record.content
    /\ hist[2].record.created_at > hist[1].record.created_at

\* C3: no container file is ever a partly written one, and after a store was
\* interrupted the container is the file the interrupted call had loaded
\* from (absent, or the last committed snapshot), which a reader parses.
C3_AtomicDurability ==
    /\ \A path \in Paths : container[path].ino /= 0 => container[path].ok
    /\ outcome.kind = "interrupted" =>
          /\ container[get_user_file_path(outcome.user_id)] = outcome.pre
          /\ load_user_memories(outcome.user_id) = outcome.pre.data.memories

\* a store was interrupted after it began to write its temporary file, the
\* user having a committed container
C3_Witness ==
    /\ outcome.kind = "interrupted"
    /\ outcome.pre.ino /= 0
    /\ \E t \in temps : t.ino = nextIno - 1

\* C4: a store that finds the user's container unparsable does not return
\* an id (it fails, the container left as it was).
C4_StoreFailsLoudly ==
    outcome.kind = "returned" => ~Unparsable(outcome.pre)

\* C5: when the write of the temporary file or the rename fails, store_memory
\* raises, and the container is what it was before the call.
C5_FailedWriteReported ==
    (outcome.kind \in {"returned", "raised"} /\ ~outcome.saved) =>
        /\ outcome.kind = "raised"
        /\ container[get_user_file_path(outcome.user_id)] = outcome.pre

\* a save failed for a user who had a committed container
C5_Witness ==
    /\ outcome.kind = "raised"
    /\ ~outcome.saved
    /\ outcome.pre.ino /= 0
    /\ outcome.pre.ok

\* C6: after N successful serialized stores of a user the ids in the user's
\* container are exactly 1..N, and the k-th of them returned k.
C6_IdsAreOneToN ==
    \A u \in Users :
        LET ids == ReturnedIds(hist, u)
        IN  /\ \A k \in 1..Len(ids) : ids[k] = k
            /\ Len(ids) > 0 => Ids(get_user_file_path(u)) = 1..Len(ids)

\* C7: the id a successful store returns is greater than every id an earlier
\* successful store of the same user returned.
C7_IdMonotonic ==
    \A i \in 1..Len(hist) : \A j \in 1..Len(hist) :
        (i < j /\ hist[i].user_id = hist[j].user_id) =>
            hist[i].record.id < hist[j].record.id

\* C8: no two records of one container file have the same id, also when
\* store_memory calls on the same user interleave.
C8_IdsUniqueInContainer ==
    \A path \in Paths :
        LET mems == container[path].data.memories
        IN  \A i \in 1..Len(mems) : \A j \in 1..Len(mems) :
                mems[i].id = mems[j].id => i = j

\* a process is inside a store for a user whose container already holds the
\* id that process has picked
C8_Witness ==
    \E p \in Procs :
        /\ pc[p] /= "idle"
        /\ memory_id[p] \in Ids(get_user_file_path(arg[p].user_id))

\* C9: every container file written has total_memories equal to the number
\* of its memories and carries the raw user id it was written for.
C9_ContainerConsistent ==
    /\ \A path \in Paths :
          (container[path].ino /= 0 /\ container[path].ok) =>
              /\ container[path].data.total_memories =
                     Len(container[path].data.memories)
              /\ get_user_file_path(container[path].data.user_id) = path
    /\ outcome.kind = "returned" =>
          container[get_user_file_path(outcome.user_id)].data.user_id =
              outcome.user_id

\* a container of two records written for one of the two ids that share a path
C9_Witness ==
    \E path \in Paths :
        /\ container[path].data.total_memories = 2
        /\ container[path].data.user_id = IdB

\* C10: the flock calls never make a store wait, and the snapshot a store
\* renames into place is the one it loaded plus its own record, whatever was
\* renamed into place in between.
C10_LostUpdate ==
    /\ \A path \in Paths : CanLockSH(path)
    /\ outcome.kind = "returned" =>
          container[get_user_file_path(outcome.user_id)].data.memories =
              Append(outcome.pre.data.memories, hist[Len(hist)].record)

\* two stores of one user loaded the same snapshot and both returned: the
\* record of the one renamed first is gone from the container
C10_Witness ==
    /\ Len(hist) = 2
    /\ hist[1].user_id = hist[2].user_id
    /\ hist[1].record.id = hist[2].record.id
    /\ hist[1].record \notin Records(get_user_file_path(hist[1].user_id))
    /\ hist[2].record \in Records(get_user_file_path(hist[1].user_id))

\* C11: a store whose content is empty or whose user id is empty is rejected:
\* it returns no id and changes no container, so no successful store has an
\* empty user id or an empty content.
C11_StoreValidates ==
    \A k \in 1..Len(hist) :
        hist[k].user_id /= <<>> /\ hist[k].record.content /= <<>>

\* C12: for every user id, get_user_file_path returns a path whose parent is
\* exactly the storage root and whose name ends with ".json".
C12_PathInsideRoot ==
    result.op = "get_user_file_path" =>
        /\ path_parent(result.value.path) = MEMORIES_DIR
        /\ endswith(path_name(result.value.path), USER_FILE_EXTENSION)

\* a path was resolved for an id that holds a separator or a control character
C12_Witness ==
    /\ result.op = "get_user_file_path"
    /\ result.user_id \in {<<"/", ".">>, <<".", ".">>, <<"\t", "/">>}
    /\ path_parent(result.value.path) = MEMORIES_DIR

\* C13: the text of the path get_user_file_path returns never contains "..".
C13_NoDotDot ==
    result.op = "get_user_file_path" =>
        ~contains(<<".", ".">>, path_str(result.value.path))

\* C14: two distinct raw user ids never resolve to the same path.
C14_PathInjective ==
    (result.op = "get_user_file_path" /\ result.user_id /= result.value.other_id)
        => result.value.path /= result.value.other_path

\* C15: when the user's container exists but is malformed (truncated JSON,
\* invalid encoding, or JSON that is not the expected object), search_memories
\* returns the empty list and get_memory_summary the zero-valued summary, and
\* neither raises.
C15_MalformedReadsAsEmpty ==
    ( /\ result.op \in {"search_memories", "get_memory_summary"}
      /\ Unparsable(container[get_user_file_path(result.user_id)]) )
    => /\ ~result.raised
       /\ result.op = "search_memories" => result.memories = <<>>
       /\ result.op = "get_memory_summary" =>
              result.value = empty_summary(result.user_id)

\* the users that have stored and whose container can be read
UsersWithReadableContainer ==
    {u \in Users : StoredUnder(u) /= {} /\ container[get_user_file_path(u)].ok}

\* C16: list_all_users returns exactly the raw ids of the users that have a
\* readable container, each once, and never fails because some container is
\* unreadable or malformed.
C16_ListsReadableUsers ==
    result.op = "list_all_users" =>
        /\ ~result.raised
        /\ {result.value[i] : i \in 1..Len(result.value)}
               = UsersWithReadableContainer
        /\ Len(result.value) = Cardinality(UsersWithReadableContainer)

\* C17: for a user with no prior records, a store followed at once by an
\* unfiltered search of that user returns exactly one record, the one stored,
\* with the id the store returned.
C17_RoundTrip ==
    ( /\ result.op = "search_memories"
      /\ result.args = [query |-> None, category |-> None,
                        days_back |-> NoneInt, limit |-> 50]
      /\ hist /= <<>>
      /\ hist[Len(hist)].user_id = result.user_id
      /\ Cardinality({k \in 1..Len(hist) :
                         hist[k].user_id = result.user_id}) = 1 )
    => /\ Len(result.memories) = 1
       /\ result.memories[1] = hist[Len(hist)].record
       /\ result.memories[1].id = outcome.id

\* the records the searched user's container holds
Loaded == load_user_memories(result.user_id)

\* m satisfies every filter that was given in a: a filter is given when its
\* argument is not None
SatisfiesGiven(m, a) ==
    /\ a.category /= None => m.category = a.category
    /\ a.days_back /= NoneInt => m.created_at >= now - a.days_back[1]
    /\ a.query /= None =>
           \/ contains(lower(a.query), lower(m.content))
           \/ contains(lower(a.query), lower(m.category))
           \/ \E i \in 1..Len(m.tags) : contains(lower(a.query), lower(m.tags[i]))

\* C18: before the limit cuts it, the result of search_memories holds exactly
\* the user's records that satisfy every filter that was given, each once.
C18_FilterConjunction ==
    (result.op = "search_memories" /\ result.args.limit >= Len(Loaded))
    => /\ {result.memories[i] : i \in 1..Len(result.memories)}
            = {Loaded[i] : i \in {j \in 1..Len(Loaded) :
                                      SatisfiesGiven(Loaded[j], result.args)}}
       /\ \A i, j \in 1..Len(result.memories) :
              result.memories[i] = result.memories[j] => i = j

\* C19: the result of search_memories is sorted by created_at descending and,
\* among records of equal created_at, by importance descending.
C19_SortedNewestFirst ==
    result.op = "search_memories" =>
        \A i, j \in 1..Len(result.memories) :
            i < j =>
                \/ result.memories[i].created_at > result.memories[j].created_at
                \/ /\ result.memories[i].created_at = result.memories[j].created_at
                   /\ result.memories[i].importance >= result.memories[j].importance

\* a filtered search returned two records of one day, of different importance
C19_Witness ==
    /\ result.op = "search_memories"
    /\ result.args.days_back /= NoneInt
    /\ Len(result.memories) = 2
    /\ result.memories[1].created_at = result.memories[2].created_at
    /\ result.memories[1].importance > result.memories[2].importance
    /\ result.memories[1].id > result.memories[2].id

\* the sorted list of the records passing the filters of the search made
SortedFiltered ==
    sort_desc(SelectSeq(Loaded,
                  LAMBDA m : passes_filters(m, result.args.query,
                                            result.args.category,
                                            result.args.days_back, now)))

\* C20 as stated: for every limit value the result is the first min(limit, n)
\* records of the sorted filtered list of length n, and never has more than
\* limit records; the recall_memories tool's limit is 10 when none is given.
C20_LimitEveryValue ==
    result.op = "search_memories" =>
        LET n == Len(SortedFiltered)
            k == IF result.args.limit < n THEN result.args.limit ELSE n
        IN  /\ result.memories = SubSeq(SortedFiltered, 1, k)
            /\ Len(result.memories) <= result.args.limit
            /\ recall_limit(NoneInt) = 10

\* C20, amended: for every limit >= 0 the result is the first min(limit, n)
\* records of the sorted filtered list and has at most limit records; for a
\* limit < 0 it is that list without its last -limit records; the limit is 10
\* when the recall_memories tool was given none.
C20_LimitAfterSort ==
    result.op = "search_memories" =>
        LET n == Len(SortedFiltered)
            l == result.args.limit
        IN  /\ l >= 0 => /\ result.memories =
                                SubSeq(SortedFiltered, 1, IF l < n THEN l ELSE n)
                         /\ Len(result.memories) <= l
            /\ l < 0 => result.memories = SubSeq(SortedFiltered, 1, n + l)
            /\ recall_limit(NoneInt) = 10

\* a limit of 1 cut a sorted result of two records whose newest is not the
\* first one stored
C20_Witness ==
    /\ result.op = "search_memories"
    /\ result.args.limit = 1
    /\ Len(SortedFiltered) = 2
    /\ result.memories = <<SortedFiltered[1]>>
    /\ SortedFiltered[1].id = 2

\* m passes the query and category filters of the search made
PassesOtherFilters(m) ==
    passes_filters(m, result.args.query, result.args.category, NoneInt, now)

\* C21: whenever days_back is given, the value 0 included, every returned
\* record has created_at >= now - days_back days, and every record of the
\* user that recent which passes the other filters is returned.
C21_TimeFilter ==
    ( /\ result.op = "search_memories"
      /\ result.args.days_back /= NoneInt
      /\ result.args.limit >= Len(Loaded) )
    => LET cutoff == now - result.args.days_back[1]
       IN  /\ \A i \in 1..Len(result.memories) :
                  result.memories[i].created_at >= cutoff
           /\ \A i \in 1..Len(Loaded) :
                  (Loaded[i].created_at >= cutoff /\ PassesOtherFilters(Loaded[i]))
                  => \E j \in 1..Len(result.memories) :
                         result.memories[j] = Loaded[i]

\* C22: for a user id with no prior store, search_memories returns the empty
\* list and get_memory_summary the zero summary, neither raises, and no
\* container file exists for that user afterwards.
C22_EmptyState ==
    ( /\ result.op \in {"search_memories", "get_memory_summary"}
      /\ StoredUnder(result.user_id) = {}
      /\ \A p \in Procs : pc[p] = "idle" )
    => /\ ~result.raised
       /\ result.op = "search_memories" => result.memories = <<>>
       /\ result.op = "get_memory_summary" =>
              result.value = empty_summary(result.user_id)
       /\ container[get_user_file_path(result.user_id)].ino = 0

\* C23: a per-user tool called without a user_id is refused and acts for no
\* user: it reads no rows and writes none, and no row is ever stored under a
\* user id that was substituted for a missing one.
C23_UserIdNeverGuessed ==
    /\ (result.op \in {"server.store_memory", "server.recall_memories",
                        "server.get_memory_summary"} \cup PerUserTools
         /\ result.user_id = None)
        => /\ result.raised
           /\ result.value.acted_for = None
           /\ result.memories = <<>>
    /\ \A i \in 1..Len(db) : db[i].user_id /= DefaultUser

\* the records of every container that parses
AllRecords == UNION {Records(path) : path \in {q \in Paths : container[q].ok}}

\* C25: every record in every container has a non-empty category and an
\* importance between 1 and 10, whatever store_memory was called with.
C25_FieldRanges ==
    \A m \in AllRecords :
        m.category /= <<>> /\ m.importance \in 1..10

\* C29: when a call of save_user_memories ends, by returning or by making
\* store_memory raise, the temporary file it created is gone from the storage
\* root; and no temporary file is ever a container that is read or listed.
C29_NoTempLeftBehind ==
    [][ /\ \A p \in Procs :
              ( /\ pc[p] /= "idle"
                /\ pc'[p] = "idle"
                /\ outcome'.kind \in {"returned", "raised"} )
              => \A f \in temps' : f.ino /= tmp[p]
        /\ \A f \in temps' : \A path \in Paths : container'[path].ino /= f.ino
      ]_vars

ReadOps == {"search_memories", "get_memory_summary", "list_all_users",
            "get_user_file_path"}

\* C28: a read (search_memories, get_memory_summary, list_all_users,
\* get_user_file_path) leaves every container and the set of files unchanged;
\* the container of a user comes into existence only through a successful
\* store_memory for that user; and no container is ever removed.
C28_ReadsChangeNothing ==
    [][ /\ (result'.called /\ result'.op \in ReadOps)
           => UNCHANGED <<container, temps>>
        /\ \A u \in Users :
              ( /\ container[get_user_file_path(u)].ino = 0
                /\ container'[get_user_file_path(u)].ino /= 0 )
              => /\ outcome'.kind = "returned"
                 /\ outcome'.user_id = u
                 /\ Len(hist') = Len(hist) + 1
        /\ \A path \in Paths :
              container[path].ino /= 0 => container'[path].ino /= 0
      ]_vars

\* the stores that succeeded for a user of the one-file-per-memory server
McpStoredUnder(u) == {k \in 1..Len(hist) : hist[k].user_id = u}

\* C24: in the one-file-per-memory server, retrieve_memories,
\* get_memory_content, get_user_stats and delete_memory called with one user
\* id never return, count or delete a memory stored with another user id,
\* whatever the memory_id and however alike the two user ids are.
C24_McpIsolation ==
    (/\ result.called
     /\ result.op \in {"mcp.retrieve_memories", "mcp.get_memory_content",
                       "mcp.get_user_stats", "mcp.delete_memory"})
    => \A k \in result.value.touched : hist[k].user_id = result.user_id

\* C30: in the one-file-per-memory server, after any sequence of successful
\* store_memory calls (two with the same filename in the same second
\* included), retrieve_memories without filters and get_user_stats report
\* for a user as many memories as stores succeeded for that user, and the
\* content of every stored memory is still in its file.
C30_OneMemoryPerStore ==
    /\ \A k \in 1..Len(hist) :
           \E f \in storage.files :
               /\ f.dir = hist[k].record.dir
               /\ f.name = hist[k].record.stored_filename
               /\ f.text = hist[k].record.content
    /\ (/\ result.called /\ ~result.raised
        /\ result.op = "mcp.retrieve_memories"
        /\ ~result.value.filtered
        /\ result.value.limit >= Len(hist))
       => result.value.count = Cardinality(McpStoredUnder(result.user_id))
    /\ (/\ result.called /\ ~result.raised
        /\ result.op = "mcp.get_user_stats")
       => result.value.count = Cardinality(McpStoredUnder(result.user_id))

\* the keyword clusters as documented, in the documented order
ClaimedClusters ==
    <<
      [category |-> <<"w", "o", "r", "k">>,
       words |-> <<
          <<"w", "o", "r", "k">>,
          <<"j", "o", "b">>,
          <<"m", "e", "e", "t", "i", "n", "g">>,
          <<"p", "r", "o", "j", "e", "c", "t">>
       >>],
      [category |-> <<"p", "e", "r", "s", "o", "n", "a", "l">>,
       words |-> <<
          <<"f", "a", "m", "i", "l", "y">>,
          <<"p", "e", "r", "s", "o", "n", "a", "l">>,
          <<"f", "r", "i", "e", "n", "d">>
       >>],
      [category |-> <<"i", "d", "e", "a", "s">>,
       words |-> <<
          <<"i", "d", "e", "a">>,
          <<"t", "h", "o", "u", "g", "h", "t">>
       >>],
      [category |-> <<"t", "a", "s", "k", "s">>,
       words |-> <<
          <<"t", "o", "d", "o">>,
          <<"t", "a", "s", "k">>,
          <<"r", "e", "m", "i", "n", "d", "e", "r">>
       >>]
    >>

CategoryNames ==
    {store_category_patterns[k].category :
        k \in 1..Len(store_category_patterns)}

\* C26: parse_store_command on the dentist command returns the tags health
\* and important, no category, and a content without the trigger phrase; and
\* a text with no keyword of the work, personal, ideas and tasks clusters
\* gets no category.
C26_DentistScenario ==
    result.op = "parse_store_command"
    => /\ result.value.text = DentistText
          => /\ {result.value.parsed.tags[i] :
                    i \in 1..Len(result.value.parsed.tags)}
                  = {<<"h", "e", "a", "l", "t", "h">>,
                     <<"i", "m", "p", "o", "r", "t", "a", "n", "t">>}
             /\ result.value.parsed.category = None
             /\ ~re_search(store_triggers, result.value.parsed.content)
       /\ (\A k \in 1..4 :
              ~re_search(store_category_patterns[k].words,
                         lower(result.value.text)))
          => result.value.parsed.category = None

\* C27: both parsers assign the category of the first documented keyword
\* cluster that matches (so a text whose only category keyword is 'task'
\* gets 'tasks'), and one category or none.
C27_KeywordClusters ==
    result.op \in {"parse_store_command", "parse_recall_command"}
    => LET claimed == detect_category(ClaimedClusters,
                                      lower(result.value.text))
       IN  /\ claimed /= None => result.value.parsed.category = claimed
           /\ result.value.parsed.category \in CategoryNames \cup {None}

====
